---------------------------- MODULE Spec2Model ----------------------------
(***************************************************************************)
(* ArchGen engine: prompt -> source classification -> closure expansion    *)
(* (auto_wire) -> zone layout and edge materialisation (build_diagram),    *)
(* with the legacy keyword decision engine (decide_products) used for the  *)
(* optional PNG.  One request of generate.py main() is one run of the      *)
(* state machine below.                                                    *)
(*                                                                         *)
(* Strings are kept as strings: keyword matching is substring search over  *)
(* the lower-cased prompt, prefixes are tested with SubSeq.  Non-ASCII     *)
(* characters of labels are transliterated ("->" for the arrow).  The      *)
(* decision-trail strings are presentation only and are not part of the    *)
(* state; the one place control flow reads them (the "Industry:" marker in *)
(* SmartRouter.route) is modelled by the value it stands for.              *)
(***************************************************************************)
EXTENDS Integers, Sequences, FiniteSets, TLC

(***************************************************************************)
(* Bounds of the model                                                     *)
(***************************************************************************)
\* number of vocabulary words a generated prompt may contain
MaxWords == 2
\* number of source ids the LLM classifier may return
MaxHaikuSources == 1

(***************************************************************************)
(* String helpers (Python str.lower, `in`, str.startswith, str.title)      *)
(***************************************************************************)
UpperChars == "ABCDEFGHIJKLMNOPQRSTUVWXYZ"
LowerChars == "abcdefghijklmnopqrstuvwxyz"

CharLower(c) ==
  IF \E i \in 1..26 : SubSeq(UpperChars, i, i) = c
  THEN LET i == CHOOSE i \in 1..26 : SubSeq(UpperChars, i, i) = c
       IN  SubSeq(LowerChars, i, i)
  ELSE c

CharUpper(c) ==
  IF \E i \in 1..26 : SubSeq(LowerChars, i, i) = c
  THEN LET i == CHOOSE i \in 1..26 : SubSeq(LowerChars, i, i) = c
       IN  SubSeq(UpperChars, i, i)
  ELSE c

RECURSIVE Lower(_)
Lower(s) == IF s = "" THEN "" ELSE CharLower(Head(s)) \o Lower(Tail(s))

\* Python `kw in p`
Contains(p, kw) ==
  \E i \in 1..(Len(p) - Len(kw) + 1) : SubSeq(p, i, i + Len(kw) - 1) = kw

\* Python p.startswith(prefix)
StartsWith(p, prefix) ==
  Len(p) >= Len(prefix) /\ SubSeq(p, 1, Len(prefix)) = prefix

\* any(w in p for w in words)
AnyIn(p, words) == \E i \in 1..Len(words) : Contains(p, words[i])

\* Python str.title() on a single lower-case word (industry ids)
TitleCase(s) == IF s = "" THEN "" ELSE CharUpper(Head(s)) \o Tail(s)

Range(f) == {f[i] : i \in DOMAIN f}

RECURSIVE JoinWith(_, _)
JoinWith(names, sep) ==
  IF Len(names) = 0 THEN ""
  ELSE IF Len(names) = 1 THEN names[1]
  ELSE names[1] \o sep \o JoinWith(Tail(names), sep)

(***************************************************************************)
(* gcp_blueprint.py: static tables                                         *)
(***************************************************************************)
SOURCE_TYPES ==
  [
    onprem |-> {"src_oracle", "src_sqlserver", "src_postgresql", "src_mongodb", "src_mysql", "src_mainframe"},
    cross_cloud |-> {"src_s3", "src_snowflake", "src_aws_rds", "src_azure_blob", "src_kinesis", "src_event_hubs", "src_dynamodb"},
    saas |-> {"src_salesforce", "src_workday", "src_servicenow", "src_sap", "src_hubspot", "src_jira", "src_zendesk", "src_netsuite", "src_shopify", "src_stripe", "src_dynamics365", "src_google_ads", "src_google_analytics", "src_marketo", "src_facebook_ads"},
    streaming |-> {"src_kafka", "src_confluent"},
    gcp_native |-> {"src_cloud_sql", "src_firestore", "src_alloydb", "src_gcs"}
  ]

SOURCE_WIRING ==
  [
    onprem |-> [conn |-> {"conn_vpn", "conn_vpc"}, l3 |-> {"ing_datastream"}, l4 |-> {"lake_gcs"}],
    cross_cloud |-> [conn |-> {"conn_entra_id", "conn_cyberark"}, l3 |-> {"ing_datastream"}, l4 |-> {"lake_gcs"}],
    saas |-> [conn |-> {"conn_armor", "conn_apigee"}, l3 |-> {"ing_functions"}, l4 |-> {"lake_gcs"}],
    streaming |-> [conn |-> {}, l3 |-> {"ing_pubsub", "ing_dataflow"}, l4 |-> {"lake_bq_staging"}],
    gcp_native |-> [conn |-> {"conn_vpc"}, l3 |-> {"ing_datastream"}, l4 |-> {"lake_gcs"}]
  ]

SOURCE_KEYWORDS ==
  [
    src_oracle |-> <<"oracle">>,
    src_sqlserver |-> <<"sql server", "mssql", "sqlserver">>,
    src_postgresql |-> <<"postgres">>,
    src_mongodb |-> <<"mongodb", "mongo">>,
    src_mysql |-> <<"mysql">>,
    src_salesforce |-> <<"salesforce", "crm">>,
    src_workday |-> <<"workday", "hcm", "hr data">>,
    src_servicenow |-> <<"servicenow", "itsm">>,
    src_sap |-> <<"sap", "erp">>,
    src_kafka |-> <<"kafka", "event stream", "streaming">>,
    src_confluent |-> <<"confluent">>,
    src_cloud_sql |-> <<"cloud sql">>,
    src_alloydb |-> <<"alloydb">>,
    src_sftp |-> <<"sftp", "ftp">>,
    src_s3 |-> <<"s3", "aws", "csv", "parquet", "files">>,
    src_mainframe |-> <<"mainframe", "as400", "cobol">>,
    src_rest_api |-> <<"rest api", "webhook", "api source">>,
    src_snowflake |-> <<"snowflake">>,
    src_hubspot |-> <<"hubspot">>,
    src_jira |-> <<"jira">>,
    src_zendesk |-> <<"zendesk">>,
    src_google_ads |-> <<"google ads">>,
    src_google_analytics |-> <<"google analytics", "ga4">>,
    src_dynamics365 |-> <<"dynamics", "dynamics 365">>,
    src_netsuite |-> <<"netsuite">>,
    src_shopify |-> <<"shopify">>,
    src_stripe |-> <<"stripe">>
  ]

NODES ==
  [
    src_salesforce |-> [name |-> "Salesforce", zone |-> "sources", layer |-> "L1"],
    src_hubspot |-> [name |-> "HubSpot", zone |-> "sources", layer |-> "L1"],
    src_dynamics365 |-> [name |-> "Dynamics 365", zone |-> "sources", layer |-> "L1"],
    src_workday |-> [name |-> "Workday", zone |-> "sources", layer |-> "L1"],
    src_sap |-> [name |-> "SAP", zone |-> "sources", layer |-> "L1"],
    src_netsuite |-> [name |-> "NetSuite", zone |-> "sources", layer |-> "L1"],
    src_adp |-> [name |-> "ADP", zone |-> "sources", layer |-> "L1"],
    src_bamboohr |-> [name |-> "BambooHR", zone |-> "sources", layer |-> "L1"],
    src_servicenow |-> [name |-> "ServiceNow", zone |-> "sources", layer |-> "L1"],
    src_jira |-> [name |-> "Jira", zone |-> "sources", layer |-> "L1"],
    src_zendesk |-> [name |-> "Zendesk", zone |-> "sources", layer |-> "L1"],
    src_google_ads |-> [name |-> "Google Ads", zone |-> "sources", layer |-> "L1"],
    src_facebook_ads |-> [name |-> "Facebook Ads", zone |-> "sources", layer |-> "L1"],
    src_google_analytics |-> [name |-> "Google Analytics", zone |-> "sources", layer |-> "L1"],
    src_adobe_analytics |-> [name |-> "Adobe Analytics", zone |-> "sources", layer |-> "L1"],
    src_marketo |-> [name |-> "Marketo", zone |-> "sources", layer |-> "L1"],
    src_facebook |-> [name |-> "Facebook", zone |-> "sources", layer |-> "L1"],
    src_twitter |-> [name |-> "Twitter / X", zone |-> "sources", layer |-> "L1"],
    src_linkedin |-> [name |-> "LinkedIn", zone |-> "sources", layer |-> "L1"],
    src_instagram |-> [name |-> "Instagram", zone |-> "sources", layer |-> "L1"],
    src_youtube |-> [name |-> "YouTube", zone |-> "sources", layer |-> "L1"],
    src_tiktok |-> [name |-> "TikTok", zone |-> "sources", layer |-> "L1"],
    src_apple_store |-> [name |-> "App Store", zone |-> "sources", layer |-> "L1"],
    src_google_play |-> [name |-> "Google Play", zone |-> "sources", layer |-> "L1"],
    src_shopify |-> [name |-> "Shopify", zone |-> "sources", layer |-> "L1"],
    src_stripe |-> [name |-> "Stripe", zone |-> "sources", layer |-> "L1"],
    src_oracle |-> [name |-> "Oracle DB", zone |-> "sources", layer |-> "L1"],
    src_sqlserver |-> [name |-> "SQL Server", zone |-> "sources", layer |-> "L1"],
    src_postgresql |-> [name |-> "PostgreSQL", zone |-> "sources", layer |-> "L1"],
    src_mysql |-> [name |-> "MySQL", zone |-> "sources", layer |-> "L1"],
    src_cloud_sql |-> [name |-> "Cloud SQL", zone |-> "sources", layer |-> "L1"],
    src_alloydb |-> [name |-> "AlloyDB", zone |-> "sources", layer |-> "L1"],
    src_mongodb |-> [name |-> "MongoDB", zone |-> "sources", layer |-> "L1"],
    src_cassandra |-> [name |-> "Cassandra", zone |-> "sources", layer |-> "L1"],
    src_elasticsearch |-> [name |-> "Elasticsearch", zone |-> "sources", layer |-> "L1"],
    src_redis |-> [name |-> "Redis", zone |-> "sources", layer |-> "L1"],
    src_dynamodb |-> [name |-> "DynamoDB", zone |-> "sources", layer |-> "L1"],
    src_firestore |-> [name |-> "Firestore", zone |-> "sources", layer |-> "L1"],
    src_neo4j |-> [name |-> "Neo4j", zone |-> "sources", layer |-> "L1"],
    src_kafka |-> [name |-> "Kafka", zone |-> "sources", layer |-> "L1"],
    src_confluent |-> [name |-> "Confluent", zone |-> "sources", layer |-> "L1"],
    src_kinesis |-> [name |-> "AWS Kinesis", zone |-> "sources", layer |-> "L1"],
    src_event_hubs |-> [name |-> "Event Hubs", zone |-> "sources", layer |-> "L1"],
    src_rabbitmq |-> [name |-> "RabbitMQ", zone |-> "sources", layer |-> "L1"],
    src_mqtt |-> [name |-> "IoT / MQTT", zone |-> "sources", layer |-> "L1"],
    src_sftp |-> [name |-> "SFTP / S3", zone |-> "sources", layer |-> "L1"],
    src_s3 |-> [name |-> "AWS S3", zone |-> "sources", layer |-> "L1"],
    src_azure_blob |-> [name |-> "Azure Blob", zone |-> "sources", layer |-> "L1"],
    src_sharepoint |-> [name |-> "SharePoint", zone |-> "sources", layer |-> "L1"],
    src_gcs |-> [name |-> "GCS External", zone |-> "sources", layer |-> "L1"],
    src_aws_rds |-> [name |-> "AWS RDS", zone |-> "sources", layer |-> "L1"],
    src_snowflake |-> [name |-> "Snowflake", zone |-> "sources", layer |-> "L1"],
    src_databricks |-> [name |-> "Databricks", zone |-> "sources", layer |-> "L1"],
    src_rest_api |-> [name |-> "REST APIs", zone |-> "sources", layer |-> "L1"],
    src_mainframe |-> [name |-> "Mainframe", zone |-> "sources", layer |-> "L1"],
    src_as400 |-> [name |-> "AS/400", zone |-> "sources", layer |-> "L1"],
    src_mq_series |-> [name |-> "MQ Series", zone |-> "sources", layer |-> "L1"],
    src_ftp |-> [name |-> "FTP / FTPS", zone |-> "sources", layer |-> "L1"],
    src_flat_file |-> [name |-> "Flat Files", zone |-> "sources", layer |-> "L1"],
    conn_cloud_identity |-> [name |-> "Cloud Identity", zone |-> "connectivity", layer |-> "L2"],
    conn_identity_platform |-> [name |-> "Identity Platform", zone |-> "connectivity", layer |-> "L2"],
    conn_iam |-> [name |-> "Cloud IAM", zone |-> "connectivity", layer |-> "L2"],
    conn_entra_id |-> [name |-> "Entra ID", zone |-> "connectivity", layer |-> "L2"],
    conn_cyberark |-> [name |-> "CyberArk", zone |-> "connectivity", layer |-> "L2"],
    conn_keeper |-> [name |-> "Keeper", zone |-> "connectivity", layer |-> "L2"],
    conn_secret_manager |-> [name |-> "Secret Manager", zone |-> "connectivity", layer |-> "L2"],
    conn_vpn |-> [name |-> "Cloud VPN", zone |-> "connectivity", layer |-> "L2"],
    conn_interconnect |-> [name |-> "Interconnect", zone |-> "connectivity", layer |-> "L2"],
    conn_vpc |-> [name |-> "VPC / VPC-SC", zone |-> "connectivity", layer |-> "L2"],
    conn_armor |-> [name |-> "Cloud Armor", zone |-> "connectivity", layer |-> "L2"],
    conn_dns |-> [name |-> "Cloud DNS", zone |-> "connectivity", layer |-> "L2"],
    conn_apigee |-> [name |-> "Apigee", zone |-> "connectivity", layer |-> "L2"],
    conn_api_gateway |-> [name |-> "API Gateway", zone |-> "connectivity", layer |-> "L2"],
    ing_datastream |-> [name |-> "Datastream", zone |-> "cloud", layer |-> "L3"],
    ing_pubsub |-> [name |-> "Pub/Sub", zone |-> "cloud", layer |-> "L3"],
    ing_dataflow |-> [name |-> "Dataflow", zone |-> "cloud", layer |-> "L3"],
    ing_functions |-> [name |-> "Cloud Functions", zone |-> "cloud", layer |-> "L3"],
    ing_fivetran |-> [name |-> "Fivetran", zone |-> "cloud", layer |-> "L3"],
    ing_matillion |-> [name |-> "Matillion", zone |-> "cloud", layer |-> "L3"],
    lake_gcs |-> [name |-> "Cloud Storage", zone |-> "cloud", layer |-> "L4"],
    lake_bq_staging |-> [name |-> "BigQuery Staging", zone |-> "cloud", layer |-> "L4"],
    proc_dataflow |-> [name |-> "Dataflow", zone |-> "cloud", layer |-> "L5"],
    proc_dataproc |-> [name |-> "Dataproc", zone |-> "cloud", layer |-> "L5"],
    proc_bq_sql |-> [name |-> "BigQuery SQL", zone |-> "cloud", layer |-> "L5"],
    proc_dlp |-> [name |-> "Cloud DLP", zone |-> "cloud", layer |-> "L5"],
    proc_matillion |-> [name |-> "Matillion", zone |-> "cloud", layer |-> "L5"],
    bronze |-> [name |-> "Bronze", zone |-> "cloud", layer |-> "L6"],
    silver |-> [name |-> "Silver", zone |-> "cloud", layer |-> "L6"],
    gold |-> [name |-> "Gold", zone |-> "cloud", layer |-> "L6"],
    serve_looker |-> [name |-> "Looker", zone |-> "cloud", layer |-> "L7"],
    serve_run |-> [name |-> "Cloud Run", zone |-> "cloud", layer |-> "L7"],
    serve_hub |-> [name |-> "Analytics Hub", zone |-> "cloud", layer |-> "L7"],
    serve_bi_engine |-> [name |-> "BQ BI Engine", zone |-> "cloud", layer |-> "L7"],
    con_looker |-> [name |-> "Looker Dashboards", zone |-> "consumers", layer |-> "L8"],
    con_sheets |-> [name |-> "Connected Sheets", zone |-> "consumers", layer |-> "L8"],
    con_vertex |-> [name |-> "Vertex AI Notebooks", zone |-> "consumers", layer |-> "L8"],
    con_run |-> [name |-> "Cloud Run APIs", zone |-> "consumers", layer |-> "L8"],
    con_hub |-> [name |-> "Analytics Hub", zone |-> "consumers", layer |-> "L8"],
    con_powerbi |-> [name |-> "Power BI", zone |-> "consumers", layer |-> "L8"],
    con_tableau |-> [name |-> "Tableau", zone |-> "consumers", layer |-> "L8"],
    con_slicer |-> [name |-> "Slicer & Dicer", zone |-> "consumers", layer |-> "L8"],
    pillar_sec |-> [name |-> "Security & Identity", zone |-> "cloud", layer |-> "P"],
    pillar_gov |-> [name |-> "Governance & Quality", zone |-> "cloud", layer |-> "P"],
    pillar_obs |-> [name |-> "Observability & Ops", zone |-> "cloud", layer |-> "P"],
    pillar_orch |-> [name |-> "Orchestration & Cost", zone |-> "cloud", layer |-> "P"]
  ]

EDGES ==
  <<
    [from |-> "src_oracle", to |-> "conn_vpn", label |-> "JDBC/CDC", type |-> "data"],
    [from |-> "src_sqlserver", to |-> "conn_vpn", label |-> "JDBC/CDC", type |-> "data"],
    [from |-> "src_postgresql", to |-> "conn_vpn", label |-> "WAL CDC", type |-> "data"],
    [from |-> "src_mongodb", to |-> "conn_vpn", label |-> "Change Strm", type |-> "data"],
    [from |-> "src_mysql", to |-> "conn_vpn", label |-> "CDC", type |-> "data"],
    [from |-> "src_mainframe", to |-> "conn_vpn", label |-> "batch", type |-> "data"],
    [from |-> "src_salesforce", to |-> "conn_armor", label |-> "REST API", type |-> "data"],
    [from |-> "src_workday", to |-> "conn_armor", label |-> "RaaS/API", type |-> "data"],
    [from |-> "src_servicenow", to |-> "conn_armor", label |-> "Table API", type |-> "data"],
    [from |-> "src_sap", to |-> "conn_armor", label |-> "OData", type |-> "data"],
    [from |-> "src_hubspot", to |-> "conn_armor", label |-> "REST API", type |-> "data"],
    [from |-> "src_jira", to |-> "conn_armor", label |-> "REST API", type |-> "data"],
    [from |-> "src_zendesk", to |-> "conn_armor", label |-> "REST API", type |-> "data"],
    [from |-> "src_google_ads", to |-> "conn_armor", label |-> "API", type |-> "data"],
    [from |-> "src_shopify", to |-> "conn_armor", label |-> "GraphQL", type |-> "data"],
    [from |-> "src_stripe", to |-> "conn_armor", label |-> "webhook", type |-> "data"],
    [from |-> "src_netsuite", to |-> "conn_armor", label |-> "SuiteTalk", type |-> "data"],
    [from |-> "src_dynamics365", to |-> "conn_armor", label |-> "Dataverse", type |-> "data"],
    [from |-> "src_s3", to |-> "conn_entra_id", label |-> "cross-cloud", type |-> "data"],
    [from |-> "src_snowflake", to |-> "conn_entra_id", label |-> "export", type |-> "data"],
    [from |-> "src_aws_rds", to |-> "conn_entra_id", label |-> "cross-cloud", type |-> "data"],
    [from |-> "src_azure_blob", to |-> "conn_entra_id", label |-> "cross-cloud", type |-> "data"],
    [from |-> "src_kafka", to |-> "ing_pubsub", label |-> "subscribe", type |-> "data"],
    [from |-> "src_confluent", to |-> "ing_pubsub", label |-> "subscribe", type |-> "data"],
    [from |-> "src_cloud_sql", to |-> "conn_vpc", label |-> "CDC", type |-> "data"],
    [from |-> "src_alloydb", to |-> "conn_vpc", label |-> "CDC", type |-> "data"],
    [from |-> "src_firestore", to |-> "conn_vpc", label |-> "export", type |-> "data"],
    [from |-> "src_sftp", to |-> "ing_functions", label |-> "SFTP pull", type |-> "data"],
    [from |-> "src_rest_api", to |-> "ing_functions", label |-> "HTTP", type |-> "data"],
    [from |-> "conn_entra_id", to |-> "conn_cloud_identity", label |-> "SAML SSO", type |-> "identity"],
    [from |-> "conn_cyberark", to |-> "conn_secret_manager", label |-> "PAM sync", type |-> "identity"],
    [from |-> "conn_keeper", to |-> "conn_secret_manager", label |-> "secrets", type |-> "identity"],
    [from |-> "conn_iam", to |-> "conn_secret_manager", label |-> "WIF", type |-> "identity"],
    [from |-> "conn_vpn", to |-> "ing_datastream", label |-> "tunnel", type |-> "data"],
    [from |-> "conn_vpc", to |-> "ing_datastream", label |-> "private", type |-> "data"],
    [from |-> "conn_armor", to |-> "ing_functions", label |-> "filtered", type |-> "data"],
    [from |-> "conn_apigee", to |-> "ing_functions", label |-> "managed", type |-> "data"],
    [from |-> "conn_iam", to |-> "ing_datastream", label |-> "auth", type |-> "identity"],
    [from |-> "ing_datastream", to |-> "lake_gcs", label |-> "CDC", type |-> "data"],
    [from |-> "ing_pubsub", to |-> "ing_dataflow", label |-> "events", type |-> "data"],
    [from |-> "ing_dataflow", to |-> "lake_bq_staging", label |-> "stream", type |-> "data"],
    [from |-> "ing_functions", to |-> "lake_gcs", label |-> "write", type |-> "data"],
    [from |-> "ing_fivetran", to |-> "lake_bq_staging", label |-> "sync", type |-> "data"],
    [from |-> "ing_matillion", to |-> "lake_bq_staging", label |-> "ELT", type |-> "data"],
    [from |-> "lake_gcs", to |-> "proc_bq_sql", label |-> "read", type |-> "data"],
    [from |-> "lake_gcs", to |-> "proc_dataproc", label |-> "read", type |-> "data"],
    [from |-> "lake_bq_staging", to |-> "proc_bq_sql", label |-> "SQL ELT", type |-> "data"],
    [from |-> "lake_bq_staging", to |-> "proc_dataflow", label |-> "stream", type |-> "data"],
    [from |-> "proc_bq_sql", to |-> "bronze", label |-> "transform", type |-> "data"],
    [from |-> "proc_dataflow", to |-> "bronze", label |-> "stream", type |-> "data"],
    [from |-> "proc_dataproc", to |-> "bronze", label |-> "spark", type |-> "data"],
    [from |-> "proc_matillion", to |-> "bronze", label |-> "ELT", type |-> "data"],
    [from |-> "proc_bq_sql", to |-> "proc_dlp", label |-> "PII scan", type |-> "quality"],
    [from |-> "proc_dlp", to |-> "silver", label |-> "mask", type |-> "quality"],
    [from |-> "bronze", to |-> "silver", label |-> "quality gate", type |-> "data"],
    [from |-> "silver", to |-> "gold", label |-> "quality gate", type |-> "data"],
    [from |-> "gold", to |-> "serve_looker", label |-> "governed BI", type |-> "data"],
    [from |-> "gold", to |-> "serve_run", label |-> "serving API", type |-> "data"],
    [from |-> "gold", to |-> "serve_hub", label |-> "data exchange", type |-> "data"],
    [from |-> "gold", to |-> "serve_bi_engine", label |-> "BI Engine", type |-> "data"],
    [from |-> "serve_looker", to |-> "con_looker", label |-> "dashboards", type |-> "data"],
    [from |-> "serve_looker", to |-> "con_sheets", label |-> "sheets", type |-> "data"],
    [from |-> "serve_run", to |-> "con_run", label |-> "API", type |-> "data"],
    [from |-> "serve_hub", to |-> "con_hub", label |-> "subscribe", type |-> "data"],
    [from |-> "gold", to |-> "con_vertex", label |-> "ML data", type |-> "data"],
    [from |-> "gold", to |-> "con_powerbi", label |-> "DirectQuery", type |-> "data"],
    [from |-> "gold", to |-> "con_tableau", label |-> "extract", type |-> "data"],
    [from |-> "gold", to |-> "con_slicer", label |-> "ad-hoc", type |-> "data"],
    [from |-> "pillar_orch", to |-> "proc_bq_sql", label |-> "trigger", type |-> "control"],
    [from |-> "pillar_orch", to |-> "ing_dataflow", label |-> "trigger", type |-> "control"],
    [from |-> "pillar_orch", to |-> "ing_datastream", label |-> "schedule", type |-> "control"],
    [from |-> "ing_dataflow", to |-> "pillar_obs", label |-> "metrics", type |-> "observe"],
    [from |-> "proc_bq_sql", to |-> "pillar_obs", label |-> "logs", type |-> "observe"],
    [from |-> "pillar_orch", to |-> "pillar_obs", label |-> "DAG logs", type |-> "observe"],
    [from |-> "pillar_gov", to |-> "bronze", label |-> "quality", type |-> "control"],
    [from |-> "pillar_gov", to |-> "silver", label |-> "lineage", type |-> "control"],
    [from |-> "pillar_gov", to |-> "gold", label |-> "catalog", type |-> "control"],
    [from |-> "pillar_sec", to |-> "conn_iam", label |-> "policy", type |-> "control"],
    [from |-> "pillar_sec", to |-> "gold", label |-> "CMEK", type |-> "control"]
  >>

ALWAYS_ON ==
  {"conn_iam", "conn_secret_manager", "lake_gcs", "proc_bq_sql", "proc_dlp", "bronze",
   "silver", "gold", "serve_looker", "con_looker", "pillar_sec", "pillar_gov", "pillar_obs",
   "pillar_orch"}

ARCHITECTURE_PATTERNS ==
  <<
    [id |-> "batch_rdbms", extra_products |-> <<>>],
    [id |-> "streaming_realtime", extra_products |-> <<>>],
    [id |-> "saas_integration", extra_products |-> <<>>],
    [id |-> "hybrid_multicloud", extra_products |-> <<>>],
    [id |-> "legacy_modernization", extra_products |-> <<>>],
    [id |-> "data_mesh", extra_products |-> <<"conn_apigee", "serve_hub", "con_hub">>],
    [id |-> "ecommerce_platform", extra_products |-> <<>>],
    [id |-> "marketing_analytics", extra_products |-> <<>>],
    [id |-> "hr_people_analytics", extra_products |-> <<>>],
    [id |-> "iot_manufacturing", extra_products |-> <<>>]
  >>

INDUSTRY_TAGS ==
  <<
    [id |-> "healthcare",
     keywords |-> <<"healthcare", "hipaa", "ehr", "clinical", "patient", "hospital", "medical", "pharma", "health system", "phi">>,
     required_products |-> <<"proc_dlp", "conn_vpc", "pillar_sec", "pillar_gov">>],
    [id |-> "fintech",
     keywords |-> <<"fintech", "banking", "pci", "fraud", "transaction", "financial", "payment", "sox", "insurance", "lending", "credit">>,
     required_products |-> <<"proc_dlp", "conn_vpc", "conn_armor", "pillar_sec", "pillar_gov">>],
    [id |-> "retail",
     keywords |-> <<"retail", "store", "pos", "omnichannel", "inventory", "supply chain retail", "cpg", "consumer goods">>,
     required_products |-> <<"proc_dlp">>],
    [id |-> "manufacturing",
     keywords |-> <<"manufacturing", "factory", "production", "quality control", "oee", "scada", "plc", "assembly line">>,
     required_products |-> <<>>],
    [id |-> "media",
     keywords |-> <<"media", "entertainment", "content", "audience", "streaming media", "ad tech", "publishing", "news">>,
     required_products |-> <<"proc_dlp">>],
    [id |-> "government",
     keywords |-> <<"government", "gov", "fedramp", "public sector", "state", "federal", "military", "dod">>,
     required_products |-> <<"conn_vpc", "pillar_sec", "pillar_gov", "proc_dlp">>]
  >>

ID_MAP ==
  [
    src_oracle |-> "oracle_db",
    src_sqlserver |-> "sqlserver_db",
    src_postgresql |-> "postgresql_db",
    src_mongodb |-> "mongodb_db",
    src_mysql |-> "oracle_db",
    src_s3 |-> "aws_s3",
    src_salesforce |-> "salesforce",
    src_workday |-> "workday",
    src_servicenow |-> "servicenow_src",
    src_sap |-> "sap_src",
    src_kafka |-> "kafka_stream",
    src_cloud_sql |-> "cloud_sql",
    src_sftp |-> "sftp_server",
    conn_iam |-> "cloud_iam",
    conn_cloud_identity |-> "cloud_iam",
    conn_secret_manager |-> "secret_manager",
    conn_vpn |-> "cloud_vpn",
    conn_vpc |-> "vpc",
    conn_armor |-> "cloud_armor",
    conn_apigee |-> "apigee",
    conn_entra_id |-> "entra_id",
    conn_cyberark |-> "cyberark",
    ing_pubsub |-> "pubsub",
    ing_dataflow |-> "dataflow_ing",
    ing_datastream |-> "datastream",
    ing_functions |-> "cloud_functions",
    ing_fivetran |-> "fivetran",
    ing_matillion |-> "matillion",
    lake_gcs |-> "gcs_raw",
    lake_bq_staging |-> "bq_staging",
    proc_bq_sql |-> "dataform",
    proc_dataflow |-> "dataflow_proc",
    proc_dataproc |-> "dataproc",
    proc_dlp |-> "cloud_dlp",
    proc_matillion |-> "matillion",
    serve_looker |-> "looker",
    serve_run |-> "cloud_run",
    serve_hub |-> "analytics_hub",
    serve_bi_engine |-> "looker",
    con_looker |-> "analysts",
    con_run |-> "downstream_sys",
    con_hub |-> "downstream_sys",
    con_powerbi |-> "executives",
    con_vertex |-> "data_scientists",
    pillar_sec |-> "scc_pillar",
    pillar_gov |-> "dataplex",
    pillar_obs |-> "cloud_monitoring",
    pillar_orch |-> "cloud_composer"
  ]

PRODUCTS_init ==
  [
    oracle_db |-> [name |-> "Oracle DB", zone |-> "source"],
    sqlserver_db |-> [name |-> "SQL Server", zone |-> "source"],
    postgresql_db |-> [name |-> "PostgreSQL", zone |-> "source"],
    mongodb_db |-> [name |-> "MongoDB", zone |-> "source"],
    aws_s3 |-> [name |-> "AWS S3", zone |-> "source"],
    salesforce |-> [name |-> "Salesforce", zone |-> "source"],
    workday |-> [name |-> "Workday", zone |-> "source"],
    servicenow_src |-> [name |-> "ServiceNow", zone |-> "source"],
    sap_src |-> [name |-> "SAP ERP", zone |-> "source"],
    kafka_stream |-> [name |-> "Kafka", zone |-> "source"],
    cloud_sql |-> [name |-> "Cloud SQL", zone |-> "source"],
    sftp_server |-> [name |-> "SFTP Server", zone |-> "source"],
    cloud_iam |-> [name |-> "Cloud IAM", zone |-> "gcp-security"],
    cloud_kms |-> [name |-> "Cloud KMS", zone |-> "gcp-security"],
    secret_manager |-> [name |-> "Secret Manager", zone |-> "gcp-security"],
    vpc |-> [name |-> "VPC Network", zone |-> "gcp-security"],
    vpc_sc |-> [name |-> "VPC-SC", zone |-> "gcp-security"],
    cloud_armor |-> [name |-> "Cloud Armor", zone |-> "gcp-security"],
    cloud_vpn |-> [name |-> "Cloud VPN", zone |-> "gcp-security"],
    apigee |-> [name |-> "Apigee", zone |-> "gcp-security"],
    entra_id |-> [name |-> "Entra ID (AAD)", zone |-> "ext-identity"],
    cyberark |-> [name |-> "CyberArk", zone |-> "ext-identity"],
    datastream |-> [name |-> "Datastream", zone |-> "ingestion"],
    pubsub |-> [name |-> "Pub/Sub", zone |-> "ingestion"],
    dataflow_ing |-> [name |-> "Dataflow", zone |-> "ingestion"],
    bq_dts |-> [name |-> "BQ Data Transfer", zone |-> "ingestion"],
    cloud_functions |-> [name |-> "Cloud Functions", zone |-> "ingestion"],
    fivetran |-> [name |-> "Fivetran", zone |-> "ingestion"],
    matillion |-> [name |-> "Matillion", zone |-> "ingestion"],
    data_fusion |-> [name |-> "Data Fusion", zone |-> "ingestion"],
    storage_transfer |-> [name |-> "Storage Transfer", zone |-> "ingestion"],
    gcs_raw |-> [name |-> "GCS Raw Zone", zone |-> "landing"],
    bq_staging |-> [name |-> "BQ Staging", zone |-> "landing"],
    dataform |-> [name |-> "Dataform", zone |-> "processing"],
    dataflow_proc |-> [name |-> "Dataflow", zone |-> "processing"],
    dataproc |-> [name |-> "Dataproc", zone |-> "processing"],
    bronze |-> [name |-> "Bronze", zone |-> "medallion"],
    silver |-> [name |-> "Silver", zone |-> "medallion"],
    gold |-> [name |-> "Gold", zone |-> "medallion"],
    looker |-> [name |-> "Looker", zone |-> "serving"],
    looker_studio |-> [name |-> "Looker Studio", zone |-> "serving"],
    power_bi |-> [name |-> "Power BI", zone |-> "serving"],
    cloud_run |-> [name |-> "Cloud Run", zone |-> "serving"],
    vertex_ai |-> [name |-> "Vertex AI", zone |-> "serving"],
    analytics_hub |-> [name |-> "Analytics Hub", zone |-> "serving"],
    analysts |-> [name |-> "Analysts", zone |-> "consumer"],
    data_scientists |-> [name |-> "Data Scientists", zone |-> "consumer"],
    downstream_sys |-> [name |-> "Downstream Systems", zone |-> "consumer"],
    executives |-> [name |-> "Executives", zone |-> "consumer"],
    cloud_composer |-> [name |-> "Cloud Composer", zone |-> "orchestration"],
    cloud_scheduler |-> [name |-> "Cloud Scheduler", zone |-> "orchestration"],
    cloud_monitoring |-> [name |-> "Cloud Monitoring", zone |-> "gcp-obs"],
    cloud_logging |-> [name |-> "Cloud Logging", zone |-> "gcp-obs"],
    audit_logs |-> [name |-> "Audit Logs", zone |-> "gcp-obs"],
    scc_pillar |-> [name |-> "Security Command Center", zone |-> "gcp-obs"],
    dataplex |-> [name |-> "Dataplex", zone |-> "governance"],
    data_catalog |-> [name |-> "Data Catalog", zone |-> "governance"],
    dataplex_dq |-> [name |-> "Dataplex DQ", zone |-> "governance"],
    cloud_dlp |-> [name |-> "Cloud DLP", zone |-> "governance"],
    pagerduty_inc |-> [name |-> "PagerDuty", zone |-> "ext-alert"],
    wiz_cspm |-> [name |-> "Wiz", zone |-> "ext-alert"],
    archer_grc |-> [name |-> "RSA Archer", zone |-> "ext-alert"],
    splunk_siem |-> [name |-> "Splunk SIEM", zone |-> "ext-log"],
    dynatrace_apm |-> [name |-> "Dynatrace", zone |-> "ext-log"]
  ]

SORT_PRIORITY ==
  [
    bronze |-> 0,
    silver |-> 1,
    gold |-> 2,
    gcs_raw |-> 0,
    bq_staging |-> 1,
    dataform |-> 0,
    dataflow_proc |-> 1,
    dataproc |-> 2,
    cloud_iam |-> 0,
    cloud_kms |-> 1,
    secret_manager |-> 2,
    vpc |-> 3,
    vpc_sc |-> 4,
    cloud_armor |-> 5,
    cloud_vpn |-> 6,
    apigee |-> 7,
    looker |-> 0,
    looker_studio |-> 1,
    power_bi |-> 2,
    vertex_ai |-> 3,
    cloud_run |-> 4,
    analytics_hub |-> 5,
    analysts |-> 0,
    executives |-> 1,
    data_scientists |-> 2,
    downstream_sys |-> 3,
    cloud_monitoring |-> 0,
    cloud_logging |-> 1,
    audit_logs |-> 2,
    scc_pillar |-> 3,
    dataplex |-> 0,
    data_catalog |-> 1,
    dataplex_dq |-> 2,
    cloud_dlp |-> 3,
    pagerduty_inc |-> 0,
    wiz_cspm |-> 1,
    archer_grc |-> 2,
    splunk_siem |-> 0,
    dynatrace_apm |-> 1
  ]

EDGE_RULES ==
  <<
    [from_any |-> <<"oracle_db", "sqlserver_db", "postgresql_db">>, to |-> "datastream", label |-> "CDC", edgeType |-> "data",
     security |-> [transport |-> "TLS 1.3 + IPSec", auth |-> "Service Account", classification |-> "PII / Confidential", private |-> TRUE]],
    [from_any |-> <<"mongodb_db">>, to |-> "datastream", label |-> "Change stream", edgeType |-> "data",
     security |-> [transport |-> "TLS 1.3", auth |-> "x509 cert", classification |-> "PII", private |-> TRUE]],
    [from_any |-> <<"kafka_stream">>, to |-> "pubsub", label |-> "Events", edgeType |-> "data",
     security |-> [transport |-> "TLS 1.3", auth |-> "SASL/OAuth", classification |-> "Transactional", private |-> TRUE]],
    [from_any |-> <<"aws_s3">>, to |-> "bq_dts", label |-> "S3 -> BQ", edgeType |-> "data"],
    [from_any |-> <<"aws_s3">>, to |-> "storage_transfer", label |-> "Bulk copy", edgeType |-> "data"],
    [from_any |-> <<"salesforce", "workday", "servicenow_src">>, to |-> "cloud_functions", label |-> "API pull", edgeType |-> "data"],
    [from_any |-> <<"salesforce", "workday", "servicenow_src">>, to |-> "fivetran", label |-> "Managed ELT", edgeType |-> "data"],
    [from_any |-> <<"sap_src">>, to |-> "data_fusion", label |-> "OData", edgeType |-> "data"],
    [from_any |-> <<"sftp_server">>, to |-> "cloud_functions", label |-> "File pull", edgeType |-> "data"],
    [from_any |-> <<"cloud_sql">>, to |-> "datastream", label |-> "CDC", edgeType |-> "data"],
    [from_any |-> <<"datastream", "cloud_functions", "data_fusion", "storage_transfer">>, to |-> "gcs_raw", label |-> "Raw files", edgeType |-> "data"],
    [from_any |-> <<"bq_dts", "fivetran", "matillion", "dataflow_ing">>, to |-> "bq_staging", label |-> "Direct load", edgeType |-> "data"],
    [from_any |-> <<"pubsub">>, to |-> "dataflow_ing", label |-> "Stream", edgeType |-> "data"],
    [from_any |-> <<"gcs_raw">>, to |-> "dataform", label |-> "ELT", edgeType |-> "data"],
    [from_any |-> <<"gcs_raw">>, to |-> "dataflow_proc", label |-> "Process", edgeType |-> "data"],
    [from_any |-> <<"gcs_raw">>, to |-> "dataproc", label |-> "Spark", edgeType |-> "data"],
    [from_any |-> <<"bq_staging">>, to |-> "dataform", label |-> "SQL transform", edgeType |-> "data"],
    [from_any |-> <<"bq_staging">>, to |-> "dataflow_proc", label |-> "Process", edgeType |-> "data"],
    [from_any |-> <<"bq_staging">>, to |-> "dataproc", label |-> "Spark job", edgeType |-> "data"],
    [from_any |-> <<"dataform", "dataflow_proc", "dataproc">>, to |-> "bronze", label |-> "Ingest", edgeType |-> "data"],
    [from_any |-> <<"bronze">>, to |-> "silver", label |-> "Clean", edgeType |-> "data"],
    [from_any |-> <<"silver">>, to |-> "gold", label |-> "Curate", edgeType |-> "data"],
    [from_any |-> <<"gold">>, to |-> "looker", label |-> "Governed BI", edgeType |-> "data"],
    [from_any |-> <<"gold">>, to |-> "looker_studio", label |-> "Dashboards", edgeType |-> "data"],
    [from_any |-> <<"gold">>, to |-> "power_bi", label |-> "DirectQuery", edgeType |-> "data"],
    [from_any |-> <<"gold">>, to |-> "vertex_ai", label |-> "Features", edgeType |-> "data"],
    [from_any |-> <<"gold">>, to |-> "cloud_run", label |-> "API", edgeType |-> "data"],
    [from_any |-> <<"gold">>, to |-> "analytics_hub", label |-> "Data share", edgeType |-> "data"],
    [from_any |-> <<"looker", "looker_studio", "power_bi">>, to |-> "analysts", label |-> "Reports", edgeType |-> "data"],
    [from_any |-> <<"looker">>, to |-> "executives", label |-> "Exec reports", edgeType |-> "data"],
    [from_any |-> <<"vertex_ai">>, to |-> "data_scientists", label |-> "ML models", edgeType |-> "data"],
    [from_any |-> <<"cloud_run">>, to |-> "downstream_sys", label |-> "REST API", edgeType |-> "data"],
    [from_any |-> <<"analytics_hub">>, to |-> "downstream_sys", label |-> "Data share", edgeType |-> "data"],
    [from_any |-> <<"entra_id">>, to |-> "cloud_iam", label |-> "SSO", edgeType |-> "identity"],
    [from_any |-> <<"cyberark">>, to |-> "secret_manager", label |-> "Cred sync", edgeType |-> "identity"],
    [from_any |-> <<"cloud_composer">>, to |-> "dataform", label |-> "Trigger", edgeType |-> "control"],
    [from_any |-> <<"cloud_composer">>, to |-> "dataflow_proc", label |-> "Trigger", edgeType |-> "control"],
    [from_any |-> <<"cloud_composer">>, to |-> "dataproc", label |-> "Trigger", edgeType |-> "control"],
    [from_any |-> <<"cloud_scheduler">>, to |-> "cloud_functions", label |-> "Cron", edgeType |-> "control"],
    [from_any |-> <<"audit_logs">>, to |-> "cloud_logging", label |-> "Logs", edgeType |-> "observe"],
    [from_any |-> <<"cloud_logging">>, to |-> "cloud_monitoring", label |-> "Metrics", edgeType |-> "observe"],
    [from_any |-> <<"cloud_monitoring">>, to |-> "pagerduty_inc", label |-> "Alerts", edgeType |-> "alert"],
    [from_any |-> <<"cloud_monitoring">>, to |-> "wiz_cspm", label |-> "Posture", edgeType |-> "alert"],
    [from_any |-> <<"cloud_logging">>, to |-> "splunk_siem", label |-> "Log export", edgeType |-> "observe"],
    [from_any |-> <<"cloud_logging">>, to |-> "dynatrace_apm", label |-> "Traces", edgeType |-> "observe"],
    [from_any |-> <<"cloud_iam">>, to |-> "datastream", label |-> "Authorize", edgeType |-> "identity"],
    [from_any |-> <<"cloud_iam">>, to |-> "dataflow_ing", label |-> "Authorize", edgeType |-> "identity"],
    [from_any |-> <<"cloud_iam">>, to |-> "pubsub", label |-> "Authorize", edgeType |-> "identity"],
    [from_any |-> <<"cloud_iam">>, to |-> "cloud_functions", label |-> "Authorize", edgeType |-> "identity"],
    [from_any |-> <<"cloud_iam">>, to |-> "looker", label |-> "RBAC", edgeType |-> "identity"],
    [from_any |-> <<"cloud_iam">>, to |-> "cloud_run", label |-> "RBAC", edgeType |-> "identity"],
    [from_any |-> <<"vpc", "vpc_sc">>, to |-> "datastream", label |-> "Perimeter", edgeType |-> "identity"],
    [from_any |-> <<"vpc", "vpc_sc">>, to |-> "pubsub", label |-> "Perimeter", edgeType |-> "identity"],
    [from_any |-> <<"cloud_armor">>, to |-> "cloud_run", label |-> "WAF", edgeType |-> "identity"],
    [from_any |-> <<"cloud_armor">>, to |-> "apigee", label |-> "WAF", edgeType |-> "identity"],
    [from_any |-> <<"datastream", "cloud_functions", "data_fusion", "dataflow_ing", "pubsub">>, to |-> "cloud_logging", label |-> "Logs", edgeType |-> "observe"],
    [from_any |-> <<"dataform", "dataflow_proc", "dataproc">>, to |-> "cloud_logging", label |-> "Logs", edgeType |-> "observe"],
    [from_any |-> <<"looker", "cloud_run", "analytics_hub">>, to |-> "cloud_monitoring", label |-> "Metrics", edgeType |-> "observe"],
    [from_any |-> <<"dataplex", "dataplex_dq">>, to |-> "gold", label |-> "Quality", edgeType |-> "control"],
    [from_any |-> <<"cloud_dlp">>, to |-> "bronze", label |-> "PII scan", edgeType |-> "control"],
    [from_any |-> <<"data_catalog">>, to |-> "gold", label |-> "Lineage", edgeType |-> "control"]
  >>

name_map ==
  [
    src_s3 |-> "S3",
    src_oracle |-> "Oracle",
    src_sqlserver |-> "SQL Server",
    src_postgresql |-> "PostgreSQL",
    src_kafka |-> "Kafka",
    src_salesforce |-> "Salesforce",
    src_workday |-> "Workday",
    src_servicenow |-> "ServiceNow",
    src_sap |-> "SAP",
    src_cloud_sql |-> "Cloud SQL",
    src_mongodb |-> "MongoDB",
    src_mysql |-> "MySQL",
    src_mainframe |-> "Mainframe",
    src_hubspot |-> "HubSpot",
    src_snowflake |-> "Snowflake"
  ]
(***************************************************************************)
(* gcp_blueprint.py: functions                                             *)
(***************************************************************************)
\* get_edges_for: the blueprint edges with both ends in keep_set
get_edges_for(keep_set) ==
  SelectSeq(EDGES, LAMBDA e : e.from \in keep_set /\ e.to \in keep_set)

\* get_source_type: the type whose list holds src_id, "saas" when none does
get_source_type(src_id) ==
  IF \E t \in DOMAIN SOURCE_TYPES : src_id \in SOURCE_TYPES[t]
  THEN CHOOSE t \in DOMAIN SOURCE_TYPES : src_id \in SOURCE_TYPES[t]
  ELSE "saas"

\* has_<stype> = any(s in SOURCE_TYPES[stype] for s in source_ids)
has_type(stype, source_ids) == \E s \in source_ids : s \in SOURCE_TYPES[stype]

\* Faulty variant of wiring_of: only the connectivity products are added
wiring_of_conn_only(stype) == SOURCE_WIRING[stype].conn

\* the additions of one source type: conn, l3 and l4 of SOURCE_WIRING
wiring_of(stype) ==
  SOURCE_WIRING[stype].conn \cup SOURCE_WIRING[stype].l3 \cup SOURCE_WIRING[stype].l4

\* Faulty variant of auto_wire: the source type is taken from
\* get_source_type, whose "saas" default then applies to every id that is
\* in no type list
auto_wire_typed(source_ids) ==
  ALWAYS_ON
  \cup UNION {wiring_of(get_source_type(s)) : s \in source_ids}
  \cup (IF has_type("streaming", source_ids) THEN {"proc_dataflow"} ELSE {})

\* Faulty variant of auto_wire: `extra` starts empty instead of as a copy
\* of ALWAYS_ON
auto_wire_unseeded(source_ids) ==
  UNION {wiring_of(stype) : stype \in {t \in DOMAIN SOURCE_WIRING : has_type(t, source_ids)}}
  \cup (IF has_type("streaming", source_ids) THEN {"proc_dataflow"} ELSE {})

\* Faulty variant of auto_wire: the source types are tried in an if/elif
\* chain, so that only the first type present is wired
auto_wire_first_type(source_ids) ==
  ALWAYS_ON
  \cup (IF has_type("onprem", source_ids) THEN wiring_of("onprem")
        ELSE IF has_type("cross_cloud", source_ids) THEN wiring_of("cross_cloud")
        ELSE IF has_type("saas", source_ids) THEN wiring_of("saas")
        ELSE IF has_type("streaming", source_ids) THEN wiring_of("streaming")
        ELSE IF has_type("gcp_native", source_ids) THEN wiring_of("gcp_native")
        ELSE {})
  \cup (IF has_type("streaming", source_ids) THEN {"proc_dataflow"} ELSE {})

\* auto_wire(source_ids)[0]: ALWAYS_ON, the wiring of every source type
\* present, and proc_dataflow when a streaming source is present
auto_wire(source_ids) ==
  ALWAYS_ON
  \cup UNION {wiring_of(stype) : stype \in {t \in DOMAIN SOURCE_WIRING : has_type(t, source_ids)}}
  \cup (IF has_type("streaming", source_ids) THEN {"proc_dataflow"} ELSE {})

\* parse_prompt: ids whose keyword list has a keyword contained in prompt.lower()
parse_prompt(p) ==
  LET pl == Lower(p)
  IN  {src_id \in DOMAIN SOURCE_KEYWORDS : AnyIn(pl, SOURCE_KEYWORDS[src_id])}

\* match_industry: first industry, in table order, with a keyword in
\* prompt.lower(); "" stands for None
match_industry(p) ==
  LET pl   == Lower(p)
      hits == {i \in 1..Len(INDUSTRY_TAGS) : AnyIn(pl, INDUSTRY_TAGS[i].keywords)}
  IN  IF hits = {} THEN ""
      ELSE INDUSTRY_TAGS[CHOOSE i \in hits : \A j \in hits : i <= j].id

\* INDUSTRY_TAGS[ind_id]["required_products"] filtered by `pid in NODES`
industry_products(ind_id) ==
  LET hits == {i \in 1..Len(INDUSTRY_TAGS) : INDUSTRY_TAGS[i].id = ind_id}
  IN  UNION {Range(INDUSTRY_TAGS[i].required_products) \cap DOMAIN NODES : i \in hits}

\* The orders in which a set can be iterated: set iteration order is not
\* fixed by the language (string hashing is randomised per process)
Orders(S) ==
  {q \in [1..Cardinality(S) -> S] : \A i, j \in 1..Cardinality(S) : i # j => q[i] # q[j]}

\* build_title for one iteration order of source_ids
title_of(order) ==
  LET known == SelectSeq(order, LAMBDA s : s \in DOMAIN NODES)
      names == [i \in 1..Len(known) |->
                  IF known[i] \in DOMAIN name_map THEN name_map[known[i]]
                  ELSE NODES[known[i]].name]
      first == SubSeq(names, 1, IF Len(names) < 4 THEN Len(names) ELSE 4)
  IN  IF Len(names) > 0 THEN JoinWith(first, " + ") \o " -> BigQuery Data Platform"
      ELSE "GCP -> BigQuery Data Platform"

\* the titles build_title can return for a set of sources
build_title(source_ids) == {title_of(q) : q \in Orders(source_ids)}

\* route_prompt / SmartRouter.route: title += " (<Industry>)"
with_industry(title, ind_id) ==
  IF ind_id # "" THEN title \o " (" \o TitleCase(ind_id) \o ")" ELSE title

\* Faulty variant of expand: the `keep |= sources` line is missing
expand_without_sources(B) == auto_wire(B)

\* closure expansion as route_prompt (generate.py:61-62) and
\* SmartRouter.route (kb_query.py:335-336) compute it
expand(B) == auto_wire(B) \cup B
(***************************************************************************)
(* diagram_builder.py: id bridge                                           *)
(***************************************************************************)
\* _guess_zone: zone of a blueprint node that has no catalog entry
_guess_zone(pid) ==
  IF StartsWith(pid, "src_") THEN "source"
  ELSE IF StartsWith(pid, "conn_") THEN "gcp-security"
  ELSE IF StartsWith(pid, "ing_") THEN "ingestion"
  ELSE IF StartsWith(pid, "lake_") THEN "landing"
  ELSE IF StartsWith(pid, "proc_") THEN "processing"
  ELSE IF StartsWith(pid, "serve_") THEN "serving"
  ELSE IF StartsWith(pid, "con_") THEN "consumer"
  ELSE IF StartsWith(pid, "pillar_") THEN "governance"
  ELSE IF NODES[pid].zone = "sources" THEN "source"
  ELSE IF NODES[pid].zone = "consumers" THEN "consumer"
  ELSE IF NODES[pid].zone = "connectivity" THEN "gcp-security"
  ELSE "gcp-security"

\* the ids of keep_set that _resolve_keep_set binds late: no catalog
\* entry, no mapped catalog entry, but a blueprint node
late_bound(keep_set, catalog) ==
  {pid \in keep_set :
     /\ pid \notin DOMAIN catalog
     /\ ~(pid \in DOMAIN ID_MAP /\ ID_MAP[pid] \in DOMAIN catalog)
     /\ pid \in DOMAIN NODES}

\* _resolve_keep_set, return value
_resolve_keep_set(keep_set, catalog) ==
  {pid \in keep_set : pid \in DOMAIN catalog}
  \cup {ID_MAP[pid] : pid \in {k \in keep_set : /\ k \notin DOMAIN catalog
                                               /\ k \in DOMAIN ID_MAP
                                               /\ ID_MAP[k] \in DOMAIN catalog}}
  \cup late_bound(keep_set, catalog)

\* _resolve_keep_set, effect on PRODUCTS: an entry for every late-bound id
catalog_after(keep_set, catalog) ==
  [pid \in DOMAIN catalog \cup late_bound(keep_set, catalog) |->
     IF pid \in DOMAIN catalog THEN catalog[pid]
     ELSE [name |-> NODES[pid].name, zone |-> _guess_zone(pid)]]

(***************************************************************************)
(* diagram_builder.py: grid constants                                      *)
(***************************************************************************)
GAP == 40
GCP_PAD == 25
GCP_LABEL == 36
ZONE_PAD == 36
LABEL_H == 28
NODE_W == 82
NODE_HALF == 41
H_SPACE == 150
V_SPACE == 140
MEDAL_SPACE == 170
COL_L_W == 180
COL_C_W == 480
COL_R_W == 300
OUTSIDE_W == 180
OUTSIDE_X == 30
GCP_X == OUTSIDE_X + OUTSIDE_W + GAP
COL_L_X == GCP_X + GCP_PAD
COL_C_X == COL_L_X + COL_L_W + GAP
COL_R_X == COL_C_X + COL_C_W + GAP
GCP_W == (COL_R_X + COL_R_W + GCP_PAD) - GCP_X

Max(a, b) == IF a >= b THEN a ELSE b
Min(a, b) == IF a <= b THEN a ELSE b

\* math.ceil(count / max_cols) for count >= 0, max_cols > 0
ceil_div(count, max_cols) == (count + max_cols - 1) \div max_cols

_zone_h(count, max_cols) ==
  IF count = 0 THEN 0
  ELSE LABEL_H + ZONE_PAD + (ceil_div(count, max_cols) - 1) * V_SPACE + NODE_W + ZONE_PAD

_section_h(count, max_cols) ==
  IF count = 0 THEN 0
  ELSE (ceil_div(count, max_cols) - 1) * V_SPACE + NODE_W

_zone_w(count, max_cols, h_space) ==
  IF count = 0 THEN 0
  ELSE 2 * ZONE_PAD + (Min(count, max_cols) - 1) * h_space + NODE_W

\* ZONE_DEFS: id and parent of every zone, in list order ("" for None)
ZONE_DEFS ==
  <<[id |-> "consumer",      parent |-> ""],
    [id |-> "ext-identity",  parent |-> ""],
    [id |-> "source",        parent |-> ""],
    [id |-> "gcp",           parent |-> ""],
    [id |-> "gcp-security",  parent |-> "gcp"],
    [id |-> "serving",       parent |-> "gcp"],
    [id |-> "orchestration", parent |-> "gcp"],
    [id |-> "data-pipeline", parent |-> "gcp"],
    [id |-> "gcp-obs",       parent |-> "gcp"],
    [id |-> "governance",    parent |-> "gcp"],
    [id |-> "medallion",     parent |-> "data-pipeline"],
    [id |-> "ext-log",       parent |-> ""],
    [id |-> "ext-alert",     parent |-> ""]>>

GCP_ZONES ==
  {"gcp-security", "ingestion", "landing", "processing", "medallion", "serving",
   "orchestration", "gcp-obs", "governance"}

(***************************************************************************)
(* diagram_builder.py: build_diagram, buckets                              *)
(***************************************************************************)
\* code-point order of the characters ids are made of
CodeOrder == "-0123456789ABCDEFGHIJKLMNOPQRSTUVWXYZ_abcdefghijklmnopqrstuvwxyz"
CharRank(c) == CHOOSE i \in 1..Len(CodeOrder) : SubSeq(CodeOrder, i, i) = c

\* Python a < b on strings
RECURSIVE StrLess(_, _)
StrLess(a, b) ==
  IF b = "" THEN FALSE
  ELSE IF a = "" THEN TRUE
  ELSE IF Head(a) = Head(b) THEN StrLess(Tail(a), Tail(b))
  ELSE CharRank(Head(a)) < CharRank(Head(b))

\* SORT_PRIORITY.get(p, 50)
priority(p) == IF p \in DOMAIN SORT_PRIORITY THEN SORT_PRIORITY[p] ELSE 50

\* sort key (SORT_PRIORITY.get(p, 50), p)
key_less(a, b) ==
  priority(a) < priority(b) \/ (priority(a) = priority(b) /\ StrLess(a, b))

\* a set of ids as the list sorted by that key
RECURSIVE sorted_by_key(_)
sorted_by_key(S) ==
  IF S = {} THEN <<>>
  ELSE LET m == CHOOSE x \in S : \A y \in S \ {x} : key_less(x, y)
       IN  <<m>> \o sorted_by_key(S \ {m})

\* zone_buckets[z]: the resolved ids whose catalog zone is z, sorted
zone_bucket(resolved, catalog, z) ==
  sorted_by_key({pid \in resolved : pid \in DOMAIN catalog /\ catalog[pid].zone = z})

\* medal_list.sort(key = medal_order.get(p, 5)): a stable sort
medal_order(p) ==
  IF p = "bronze" THEN 0 ELSE IF p = "silver" THEN 1 ELSE IF p = "gold" THEN 2 ELSE 5

RECURSIVE stable_medal_sort(_)
stable_medal_sort(list) ==
  IF Len(list) = 0 THEN <<>>
  ELSE LET i == CHOOSE i \in 1..Len(list) :
                  /\ \A j \in 1..Len(list) : medal_order(list[i]) <= medal_order(list[j])
                  /\ \A j \in 1..(i - 1) : medal_order(list[j]) > medal_order(list[i])
       IN  <<list[i]>> \o stable_medal_sort(SubSeq(list, 1, i - 1) \o SubSeq(list, i + 1, Len(list)))
(***************************************************************************)
(* diagram_builder.py: build_diagram, phase 1 (zone rectangles)            *)
(***************************************************************************)
\* Faulty variant of stack_h: the gaps between the parts are left out
RECURSIVE stack_h_no_gap(_)
stack_h_no_gap(hs) ==
  IF Len(hs) = 0 THEN 0 ELSE Head(hs) + stack_h_no_gap(Tail(hs))

\* sum(parts) + max(0, len(parts) - 1) * GAP over the non-zero heights
RECURSIVE stack_h(_)
stack_h(hs) ==
  IF Len(hs) = 0 THEN 0
  ELSE LET rest == stack_h(Tail(hs))
       IN  IF Head(hs) = 0 THEN rest
           ELSE IF rest = 0 THEN Head(hs)
           ELSE Head(hs) + GAP + rest

\* Faulty variant of y_cursor_after: the cursor is not advanced
y_cursor_stuck(y_cursor, h, n) == y_cursor

\* the y_cursor of a column after a zone of n nodes and height h:
\* `if n: ...; y_cursor += h + GAP`
y_cursor_after(y_cursor, h, n) == IF n # 0 THEN y_cursor + h + GAP ELSE y_cursor

\* int(v / 2) for the halves the layout takes: truncation towards zero
half(v) == IF v >= 0 THEN v \div 2 ELSE -((-v) \div 2)

\* the per-diagram geometry of build_diagram, from the node count n[z] of
\* every catalog zone z: the zone rectangles and the pipeline row offsets
geometry(n) ==
  LET h_security    == _zone_h(n["gcp-security"], 1)
      h_governance  == _zone_h(n["governance"], 1)
      col_l_h       == stack_h(<<h_security, h_governance>>)
      h_serving     == _zone_h(n["serving"], 2)
      h_medallion_z == _zone_h(n["medallion"], 3)
      h_processing  == _section_h(n["processing"], 2)
      h_landing     == _section_h(n["landing"], 2)
      h_ingestion   == _section_h(n["ingestion"], 2)
      pipe_sections == stack_h(<<h_medallion_z, h_processing, h_landing, h_ingestion>>)
      h_pipeline    == IF pipe_sections > 0
                       THEN LABEL_H + ZONE_PAD + pipe_sections + ZONE_PAD
                       ELSE 0
      col_c_h       == stack_h(<<h_serving, h_pipeline>>)
      h_orch        == _zone_h(n["orchestration"], 2)
      h_obs         == _zone_h(n["gcp-obs"], 2)
      col_r_h       == stack_h(<<h_obs, h_orch>>)
      has_gcp       == \E z \in GCP_ZONES : n[z] > 0
      gcp_inner_h   == Max(Max(col_l_h, col_c_h), Max(col_r_h, 0))
      gcp_h         == IF has_gcp THEN GCP_PAD + GCP_LABEL + gcp_inner_h + GCP_PAD ELSE 0
      h_consumer    == _zone_h(n["consumer"], 4)
      con_w         == IF n["consumer"] # 0
                       THEN Max(_zone_w(n["consumer"], 4, H_SPACE), 200) ELSE 0
      consumer_y    == 80
      consumer_x    == IF con_w # 0 THEN GCP_X + half(GCP_W - con_w) ELSE 0
      gcp_y         == IF n["consumer"] # 0 THEN consumer_y + h_consumer + GAP ELSE 80
      gcp_inner_top == gcp_y + GCP_PAD + GCP_LABEL
      gov_y         == y_cursor_after(gcp_inner_top, h_security, n["gcp-security"])
      pipe_y        == y_cursor_after(gcp_inner_top, h_serving, n["serving"])
      py0           == pipe_y + LABEL_H + ZONE_PAD
      py1           == y_cursor_after(py0, h_medallion_z, n["medallion"])
      py2           == y_cursor_after(py1, h_processing, n["processing"])
      py3           == y_cursor_after(py2, h_landing, n["landing"])
      orch_y        == y_cursor_after(gcp_inner_top, h_obs, n["gcp-obs"])
      h_ext_id      == _zone_h(n["ext-identity"], 1)
      source_y      == y_cursor_after(gcp_y, h_ext_id, n["ext-identity"])
      ext_y         == IF has_gcp THEN gcp_y + gcp_h + GAP ELSE gcp_y + GAP
      elw           == Max(_zone_w(n["ext-log"], 2, H_SPACE), 200)
      eaw           == Max(_zone_w(n["ext-alert"], 2, H_SPACE), 200)
      ea_x          == IF n["ext-log"] # 0 THEN GCP_X + elw + GAP ELSE GCP_X
      R(x, y, w, h) == [x |-> x, y |-> y, w |-> w, h |-> h]
      present       ==
        {z \in {"consumer", "ext-identity", "source", "gcp-security", "governance",
                "serving", "gcp-obs", "orchestration", "ext-log", "ext-alert"} : n[z] # 0}
        \cup (IF has_gcp THEN {"gcp"} ELSE {})
        \cup (IF h_pipeline > 0 THEN {"data-pipeline"} ELSE {})
        \cup (IF h_pipeline > 0 /\ n["medallion"] # 0 THEN {"medallion"} ELSE {})
      rect(z)       ==
        CASE z = "consumer"      -> R(consumer_x, consumer_y, con_w, h_consumer)
          [] z = "gcp"           -> R(GCP_X, gcp_y, GCP_W, gcp_h)
          [] z = "gcp-security"  -> R(COL_L_X, gcp_inner_top, COL_L_W, h_security)
          [] z = "governance"    -> R(COL_L_X, gov_y, COL_L_W, h_governance)
          [] z = "serving"       -> R(COL_C_X, gcp_inner_top, COL_C_W, h_serving)
          [] z = "data-pipeline" -> R(COL_C_X, pipe_y, COL_C_W, h_pipeline)
          [] z = "medallion"     -> R(COL_C_X + ZONE_PAD \div 2, py0,
                                      COL_C_W - ZONE_PAD, h_medallion_z)
          [] z = "gcp-obs"       -> R(COL_R_X, gcp_inner_top, COL_R_W, h_obs)
          [] z = "orchestration" -> R(COL_R_X, orch_y, COL_R_W, h_orch)
          [] z = "ext-identity"  -> R(OUTSIDE_X, gcp_y, OUTSIDE_W, h_ext_id)
          [] z = "source"        -> R(OUTSIDE_X, source_y, OUTSIDE_W, _zone_h(n["source"], 1))
          [] z = "ext-log"       -> R(GCP_X, ext_y, elw, _zone_h(n["ext-log"], 2))
          [] z = "ext-alert"     -> R(ea_x, ext_y, eaw, _zone_h(n["ext-alert"], 2))
  IN  [zone_rects |-> [z \in present |-> rect(z)],
       proc_y |-> IF n["processing"] # 0 THEN py1 ELSE 0,
       land_y |-> IF n["landing"] # 0 THEN py2 ELSE 0,
       ing_y  |-> IF n["ingestion"] # 0 THEN py3 ELSE 0]

(***************************************************************************)
(* diagram_builder.py: build_diagram, phase 2 (node placement)             *)
(***************************************************************************)
_make_node(pid, catalog, x, y) ==
  [id |-> pid, name |-> catalog[pid].name, subZone |-> catalog[pid].zone, x |-> x, y |-> y]

\* Faulty variant of place_grid: no grid is wider than two columns
place_grid_two_columns(pids, catalog, zx, zw, ny0, max_cols, h_space) ==
  LET mc     == Min(max_cols, 2)
      cols   == Min(Len(pids), mc)
      grid_w == (cols - 1) * h_space + NODE_W
  IN  [i \in 1..Len(pids) |->
         _make_node(pids[i], catalog,
                    half(2 * zx + (zw - grid_w) + 2 * NODE_HALF
                         + 2 * (((i - 1) % mc) * h_space)),
                    ny0 + ((i - 1) \div mc) * V_SPACE)]

\* the centred grid shared by _place_in_zone and _place_raw: node i of pids
\* at column i % max_cols, row i // max_cols, first row centre at ny0
place_grid(pids, catalog, zx, zw, ny0, max_cols, h_space) ==
  LET cols   == Min(Len(pids), max_cols)
      grid_w == (cols - 1) * h_space + NODE_W
  IN  [i \in 1..Len(pids) |->
         _make_node(pids[i], catalog,
                    half(2 * zx + (zw - grid_w) + 2 * NODE_HALF
                         + 2 * (((i - 1) % max_cols) * h_space)),
                    ny0 + ((i - 1) \div max_cols) * V_SPACE)]

\* Faulty variant of _place_in_zone: the first row is centred on the top
\* edge of the zone
_place_in_zone_at_top(pids, catalog, zr, max_cols, h_space) ==
  place_grid(pids, catalog, zr.x, zr.w, zr.y, max_cols, h_space)

_place_in_zone(pids, catalog, zr, max_cols, h_space) ==
  place_grid(pids, catalog, zr.x, zr.w, zr.y + LABEL_H + ZONE_PAD + NODE_HALF,
             max_cols, h_space)

_place_raw(pids, catalog, zr, start_y, max_cols) ==
  place_grid(pids, catalog, zr.x, zr.w, start_y + NODE_HALF, max_cols, H_SPACE)

\* the zones of the catalog, i.e. the keys zone_buckets can have
CatalogZones ==
  {"consumer", "ext-identity", "source", "gcp-security", "serving", "orchestration",
   "gcp-obs", "governance", "medallion", "processing", "landing", "ingestion",
   "ext-log", "ext-alert"}

\* nodes of build_diagram for the resolved ids (`@@ <<>>` makes a table of
\* a function, so that each bucket is computed once)
place_nodes(resolved, catalog) ==
  LET b  == [z \in CatalogZones |-> zone_bucket(resolved, catalog, z)] @@ <<>>
      g  == geometry([z \in CatalogZones |-> Len(b[z])] @@ <<>>)
      zr == g.zone_rects
      In(z, max_cols) ==
        IF Len(b[z]) # 0 /\ z \in DOMAIN zr
        THEN _place_in_zone(b[z], catalog, zr[z], max_cols, H_SPACE) ELSE <<>>
      Raw(z, start_y) ==
        IF "data-pipeline" \in DOMAIN zr /\ Len(b[z]) # 0
        THEN _place_raw(b[z], catalog, zr["data-pipeline"], start_y, 2) ELSE <<>>
      medal ==
        IF "data-pipeline" \in DOMAIN zr /\ Len(b["medallion"]) # 0 /\ "medallion" \in DOMAIN zr
        THEN _place_in_zone(stable_medal_sort(b["medallion"]), catalog, zr["medallion"],
                            3, MEDAL_SPACE)
        ELSE <<>>
  IN  In("consumer", 4) \o In("ext-identity", 1) \o In("source", 1)
      \o In("gcp-security", 1) \o In("serving", 2) \o In("orchestration", 2)
      \o In("gcp-obs", 2) \o In("governance", 1)
      \o medal \o Raw("processing", g.proc_y) \o Raw("landing", g.land_y)
      \o Raw("ingestion", g.ing_y)
      \o In("ext-log", 2) \o In("ext-alert", 2)

\* zones_out of build_diagram (phase 3): the rectangles in ZONE_DEFS order
zones_out(resolved, catalog) ==
  LET b  == [z \in CatalogZones |-> zone_bucket(resolved, catalog, z)] @@ <<>>
      zr == geometry([z \in CatalogZones |-> Len(b[z])] @@ <<>>).zone_rects
      defs == SelectSeq(ZONE_DEFS, LAMBDA zd : zd.id \in DOMAIN zr)
  IN  [i \in 1..Len(defs) |->
         [id |-> defs[i].id, parent |-> defs[i].parent,
          x |-> zr[defs[i].id].x, y |-> zr[defs[i].id].y,
          w |-> zr[defs[i].id].w, h |-> zr[defs[i].id].h]]

(***************************************************************************)
(* diagram_builder.py: build_diagram, edges                                *)
(***************************************************************************)
\* Faulty variant of candidates: the sources of a rule are not tested
\* against node_ids
RECURSIVE candidates_ungated(_, _, _)
candidates_ungated(rules, node_ids, r) ==
  IF r > Len(rules) THEN <<>>
  ELSE (IF rules[r].to \in node_ids
        THEN [i \in 1..Len(rules[r].from_any) |-> [rule |-> r, fid |-> rules[r].from_any[i]]]
        ELSE <<>>)
       \o candidates_ungated(rules, node_ids, r + 1)

\* Faulty variant of candidates: a rule stops at its first present source
RECURSIVE candidates_first_source(_, _, _)
candidates_first_source(rules, node_ids, r) ==
  IF r > Len(rules) THEN <<>>
  ELSE LET from_ids == SelectSeq(rules[r].from_any, LAMBDA fid : fid \in node_ids)
       IN  (IF rules[r].to \in node_ids /\ Len(from_ids) > 0
            THEN <<[rule |-> r, fid |-> from_ids[1]]>>
            ELSE <<>>)
           \o candidates_first_source(rules, node_ids, r + 1)

\* Faulty variant of candidates: the `to_id not in node_ids` test is missing
RECURSIVE candidates_any_target(_, _, _)
candidates_any_target(rules, node_ids, r) ==
  IF r > Len(rules) THEN <<>>
  ELSE LET from_ids == SelectSeq(rules[r].from_any, LAMBDA fid : fid \in node_ids)
       IN  [i \in 1..Len(from_ids) |-> [rule |-> r, fid |-> from_ids[i]]]
           \o candidates_any_target(rules, node_ids, r + 1)

\* (rule, source) candidates in the order the loops visit them:
\* rules in table order whose target is a node, then from_any in list
\* order restricted to nodes
RECURSIVE candidates(_, _, _)
candidates(rules, node_ids, r) ==
  IF r > Len(rules) THEN <<>>
  ELSE LET from_ids == SelectSeq(rules[r].from_any, LAMBDA fid : fid \in node_ids)
       IN  (IF rules[r].to \in node_ids
            THEN [i \in 1..Len(from_ids) |-> [rule |-> r, fid |-> from_ids[i]]]
            ELSE <<>>)
           \o candidates(rules, node_ids, r + 1)

zone_of(catalog, pid) == IF pid \in DOMAIN catalog THEN catalog[pid].zone ELSE ""

\* Faulty variant of make_edge: the crossing flag is read from the rule
make_edge_rule_flag(rule, fid, edge_id, catalog) ==
  [id |-> "e" \o ToString(edge_id), from |-> fid, to |-> rule.to,
   label |-> rule.label, edgeType |-> rule.edgeType]
  @@ (IF "crossesBoundary" \in DOMAIN rule THEN [crossesBoundary |-> TRUE] ELSE <<>>)
  @@ (IF "security" \in DOMAIN rule THEN [security |-> rule.security] ELSE <<>>)

\* the edge dict built for (fid, rule.to) with the running edge_id
make_edge(rule, fid, edge_id, catalog) ==
  [id |-> "e" \o ToString(edge_id), from |-> fid, to |-> rule.to,
   label |-> rule.label, edgeType |-> rule.edgeType]
  @@ (IF \/ (zone_of(catalog, fid) = "source" /\ zone_of(catalog, rule.to) \in GCP_ZONES)
         \/ zone_of(catalog, rule.to) = "consumer"
      THEN [crossesBoundary |-> TRUE] ELSE <<>>)
  @@ (IF "security" \in DOMAIN rule THEN [security |-> rule.security] ELSE <<>>)

\* Faulty variant of emit: seen_pairs is never consulted
RECURSIVE emit_unseen(_, _, _, _, _)
emit_unseen(rules, cands, seen_pairs, edge_id, catalog) ==
  IF Len(cands) = 0 THEN <<>>
  ELSE <<make_edge(rules[Head(cands).rule], Head(cands).fid, edge_id + 1, catalog)>>
       \o emit_unseen(rules, Tail(cands), seen_pairs, edge_id + 1, catalog)

\* the seen_pairs loop over the candidates
RECURSIVE emit(_, _, _, _, _)
emit(rules, cands, seen_pairs, edge_id, catalog) ==
  IF Len(cands) = 0 THEN <<>>
  ELSE LET c    == Head(cands)
           pair == <<c.fid, rules[c.rule].to>>
       IN  IF pair \in seen_pairs
           THEN emit(rules, Tail(cands), seen_pairs, edge_id, catalog)
           ELSE <<make_edge(rules[c.rule], c.fid, edge_id + 1, catalog)>>
                \o emit(rules, Tail(cands), seen_pairs \cup {pair}, edge_id + 1, catalog)

\* edges of build_diagram for a rule table and the placed node ids
materialize_edges(rules, node_ids, catalog) ==
  emit(rules, candidates(rules, node_ids, 1), {}, 0, catalog)
(***************************************************************************)
(* archgen_slicer.py: decide_products                                      *)
(***************************************************************************)
\* the L1 source detections: product id and the words that select it
L1_SOURCES ==
  <<[id |-> "aws_s3",         words |-> <<"s3", "aws", "csv", "parquet", "files">>],
    [id |-> "oracle_db",      words |-> <<"oracle">>],
    [id |-> "sqlserver_db",   words |-> <<"sql server", "mssql", "sqlserver">>],
    [id |-> "postgresql_db",  words |-> <<"postgres">>],
    [id |-> "mongodb_db",     words |-> <<"mongodb", "mongo">>],
    [id |-> "salesforce",     words |-> <<"salesforce", "crm">>],
    [id |-> "workday",        words |-> <<"workday", "hcm", "hr data">>],
    [id |-> "servicenow_src", words |-> <<"servicenow", "itsm">>],
    [id |-> "sap_src",        words |-> <<"sap", "erp">>],
    [id |-> "kafka_stream",   words |-> <<"kafka", "event stream", "streaming">>],
    [id |-> "cloud_sql",      words |-> <<"cloud sql">>],
    [id |-> "sftp_server",    words |-> <<"sftp", "ftp">>]>>

\* products selected by a word of the prompt in L7, L8, observability,
\* security and GRC
OPTIONAL_PRODUCTS ==
  <<[id |-> "power_bi",        words |-> <<"power bi", "powerbi">>],
    [id |-> "looker_studio",   words |-> <<"looker studio">>],
    [id |-> "cloud_run",       words |-> <<"api", "serving", "microservice">>],
    [id |-> "vertex_ai",       words |-> <<"ml", "machine learning", "vertex", "ai">>],
    [id |-> "analytics_hub",   words |-> <<"analytics hub", "data exchange", "data sharing">>],
    [id |-> "data_scientists", words |-> <<"data scien", "notebook", "ml">>],
    [id |-> "downstream_sys",  words |-> <<"api", "downstream", "feed">>],
    [id |-> "executives",      words |-> <<"executive", "report", "c-suite">>],
    [id |-> "splunk_siem",     words |-> <<"splunk", "siem">>],
    [id |-> "dynatrace_apm",   words |-> <<"dynatrace", "apm">>],
    [id |-> "scc_pillar",      words |-> <<"scc", "security command", "posture">>],
    [id |-> "wiz_cspm",        words |-> <<"wiz", "cspm">>],
    [id |-> "archer_grc",      words |-> <<"archer", "grc", "compliance">>]>>

\* products decide_products adds whatever the prompt says
DECIDE_ALWAYS ==
  {"cloud_iam", "secret_manager", "vpc", "vpc_sc", "dataplex_dq", "cloud_dlp",
   "bronze", "silver", "gold", "looker", "analysts", "cloud_monitoring",
   "cloud_logging", "audit_logs", "pagerduty_inc", "wiz_cspm", "cloud_kms",
   "dataplex", "data_catalog"}

selected_by(pl, table) ==
  {table[i].id : i \in {j \in 1..Len(table) : AnyIn(pl, table[j].words)}}

\* decide_products(prompt): keep_set, anti_patterns and title
decide_products(p) ==
  LET pl            == Lower(p)
      l1            == selected_by(pl, L1_SOURCES)
      has_onprem    == l1 \cap {"oracle_db", "sqlserver_db", "postgresql_db", "mongodb_db"} # {}
      has_cross     == "aws_s3" \in l1
      has_saas      == l1 \cap {"salesforce", "workday", "servicenow_src", "sap_src"} # {}
      has_streaming == "kafka_stream" \in l1
      dts           == Contains(pl, "bq dts") \/ Contains(pl, "data transfer")
      l2 == (IF has_onprem THEN {"cloud_vpn"} ELSE {})
            \cup (IF has_cross THEN {"vpc_sc", "entra_id", "cyberark"} ELSE {})
            \cup (IF has_saas THEN {"cloud_armor", "apigee"} ELSE {})
      saas_ing == IF Contains(pl, "fivetran") THEN "fivetran"
                  ELSE IF Contains(pl, "matillion") THEN "matillion"
                  ELSE "cloud_functions"
      l3 == (IF dts THEN {"bq_dts"} ELSE IF has_onprem THEN {"datastream"} ELSE {})
            \cup (IF has_streaming THEN {"pubsub", "dataflow_ing"} ELSE {})
            \cup (IF has_saas THEN {saas_ing} ELSE {})
            \cup (IF Contains(pl, "sap") THEN {"data_fusion"} ELSE {})
            \cup (IF Contains(pl, "sftp") THEN {"cloud_functions"} ELSE {})
            \cup (IF Contains(pl, "storage transfer") THEN {"storage_transfer"} ELSE {})
      l4 == (IF l3 \cap {"datastream", "storage_transfer", "cloud_functions", "data_fusion"} # {}
             THEN {"gcs_raw"} ELSE {})
            \cup (IF l3 \cap {"bq_dts", "dataflow_ing", "matillion", "fivetran"} # {}
                  THEN {"bq_staging"} ELSE {})
      l5 == IF Contains(pl, "dataform") \/ Contains(pl, "sql") \/ Contains(pl, "elt")
            THEN "dataform"
            ELSE IF has_streaming THEN "dataflow_proc"
            ELSE IF Contains(pl, "spark") \/ Contains(pl, "dataproc") THEN "dataproc"
            ELSE "dataform"
      orch == IF AnyIn(pl, <<"composer", "airflow", "dag", "orchestrat">>) THEN "cloud_composer"
              ELSE IF AnyIn(pl, <<"scheduler", "cron">>) THEN "cloud_scheduler"
              ELSE "cloud_composer"
      keep_set == l1 \cup l2 \cup l3 \cup l4 \cup {l5, orch} \cup DECIDE_ALWAYS
                  \cup selected_by(pl, OPTIONAL_PRODUCTS)
      anti ==
        (IF dts /\ ~Contains(pl, "dataflow")
         THEN <<"Skipped Dataflow - BQ DTS handles S3 natively for free">> ELSE <<>>)
        \o (IF ~dts /\ has_onprem /\ Contains(pl, "oracle") /\ ~Contains(pl, "goldengate")
            THEN <<"Using Datastream not GoldenGate - cheaper, serverless">> ELSE <<>>)
        \o (IF has_saas /\ saas_ing = "cloud_functions"
            THEN <<"Skipped Matillion/Fivetran - Cloud Functions handles API polling for free">>
            ELSE <<>>)
      tnames == SelectSeq(<<[id |-> "aws_s3", n |-> "S3"], [id |-> "oracle_db", n |-> "Oracle"],
                            [id |-> "sqlserver_db", n |-> "SQL Server"],
                            [id |-> "postgresql_db", n |-> "PostgreSQL"],
                            [id |-> "kafka_stream", n |-> "Kafka"],
                            [id |-> "salesforce", n |-> "Salesforce"],
                            [id |-> "cloud_sql", n |-> "Cloud SQL"]>>,
                          LAMBDA e : e.id \in keep_set)
  IN  [keep_set |-> keep_set,
       anti_patterns |-> anti,
       title |-> (IF Len(tnames) > 0 THEN JoinWith([i \in 1..Len(tnames) |-> tnames[i].n], " + ")
                  ELSE "GCP") \o " -> BigQuery Data Platform"]

(***************************************************************************)
(* Inputs                                                                  *)
(***************************************************************************)
\* words a generated prompt is made of, in the order they are joined
Vocabulary ==
  <<"Oracle", "kafka", "mysql", "salesforce", "s3", "sftp", "confluent">>

\* prompts given in full
FixedPrompts ==
  {"Oracle CDC to BigQuery", "Kafka streaming to BigQuery with Dataflow",
   "HIPAA hospital data", "Postgres and SQL Server replication",
   "Oracle spark cron"}

RECURSIVE words_of(_, _)
words_of(I, from) ==
  IF from > Len(Vocabulary) THEN <<>>
  ELSE IF from \in I THEN <<Vocabulary[from]>> \o words_of(I, from + 1)
  ELSE words_of(I, from + 1)

\* the prompts a request may carry: the empty prompt, up to MaxWords
\* vocabulary words joined by blanks, and the fixed prompts
Prompts ==
  {JoinWith(words_of(I, 1), " ") :
     I \in {J \in SUBSET (1..Len(Vocabulary)) : Cardinality(J) <= MaxWords}}
  \cup FixedPrompts

\* ids the LLM classifier may name as sources (after `s in NODES` validation)
HaikuPool == {"src_rabbitmq", "gold"}

\* _classify_with_haiku returned None (no key, a failed call, no JSON)
NoClass == [none |-> TRUE]

\* patterns and industry the classifier may name along with the sources
HaikuLabels ==
  {[patterns |-> {}, industry |-> ""],
   [patterns |-> {"data_mesh"}, industry |-> "fintech"]}

\* what _classify_with_haiku can return besides None: an answer that names
\* sources, or one that names patterns and an industry
HaikuResults ==
  {[sources |-> S, patterns |-> {}, industry |-> ""] :
     S \in {T \in SUBSET HaikuPool : Cardinality(T) <= MaxHaikuSources}}
  \cup {[sources |-> {}, patterns |-> l.patterns, industry |-> l.industry] :
          l \in HaikuLabels}

(***************************************************************************)
(* State                                                                   *)
(***************************************************************************)
VARIABLES
  pc,                \* position of main(): start, routed, built, png, done
  prompt,            \* sys.argv[1]
  sources,           \* routed["sources"]
  keep,              \* routed["keep_set"]
  title,             \* routed["title"]
  tier,              \* routed["tier"]
  industry,          \* routed["industry"] id, "" for None
  anti_patterns,     \* main's anti_patterns list
  PRODUCTS,          \* diagram_builder.PRODUCTS, the module-level catalog
  nodes,             \* diagram["nodes"]
  zones,             \* diagram["zones"]: the emitted zone rectangles, in ZONE_DEFS order
  edges,             \* diagram["edges"]
  old_result,        \* decide_products(prompt) of the PNG path
  png,               \* a PNG was rendered
  kb_diagram_cache,  \* rows of the kb_diagram_cache table
  rules,             \* diagram_builder.EDGE_RULES, the module-level rule table
  failed,            \* the optional collaborators that failed during the request
  requests,          \* the build_diagram calls of one process that serves several requests
  _cache,            \* SmartRouter._cache of a router that serves several prompts
  routes,            \* the route calls that router has completed, in order
  sliced             \* what slice_blueprint returned: the sliced source and removed_vars

vars == <<pc, prompt, sources, keep, title, tier, industry, anti_patterns,
          PRODUCTS, nodes, zones, edges, old_result, png, kb_diagram_cache, rules,
          failed, requests, _cache, routes, sliced>>

\* no blueprint sliced
NoSlice == [source |-> <<>>, removed_vars |-> {}]

NoResult == [keep_set |-> {}, anti_patterns |-> <<>>, title |-> ""]

Init ==
  /\ pc = "start"
  /\ prompt \in Prompts
  /\ sources = {}
  /\ keep = {}
  /\ title = ""
  /\ tier = 0
  /\ industry = ""
  /\ anti_patterns = <<>>
  /\ PRODUCTS = PRODUCTS_init
  /\ nodes = <<>>
  /\ zones = <<>>
  /\ edges = <<>>
  /\ old_result = NoResult
  /\ png = FALSE
  /\ kb_diagram_cache = <<>>
  /\ rules = EDGE_RULES
  /\ failed = {}
  /\ requests = <<>>
  /\ _cache = <<>>
  /\ routes = <<>>
  /\ sliced = NoSlice

(***************************************************************************)
(* kb_query.py: SmartRouter                                                *)
(***************************************************************************)
\* Python str.strip() of blanks
RECURSIVE lstrip(_)
lstrip(s) == IF s # "" /\ Head(s) = " " THEN lstrip(Tail(s)) ELSE s
RECURSIVE rstrip(_)
rstrip(s) ==
  IF s # "" /\ SubSeq(s, Len(s), Len(s)) = " " THEN rstrip(SubSeq(s, 1, Len(s) - 1)) ELSE s
strip(s) == rstrip(lstrip(s))

\* check_cache: the rows whose LOWER(TRIM(prompt)) is prompt.lower().strip()
\* (the in-memory _cache of a SmartRouter built for this request is empty)
check_cache(p, rows) ==
  {i \in 1..Len(rows) : Lower(strip(rows[i].prompt)) = strip(Lower(p))}

\* sources named by the classifier: `src in NODES and src.startswith("src_")`
haiku_sources(cls) ==
  IF cls = NoClass THEN {}
  ELSE {s \in cls.sources : s \in DOMAIN NODES /\ StartsWith(s, "src_")}

\* an "Industry:" decision was recorded from the classifier:
\* `ind_id and ind_id in INDUSTRY_TAGS`
haiku_industry(cls) ==
  /\ cls # NoClass
  /\ cls.industry # ""
  /\ \E i \in 1..Len(INDUSTRY_TAGS) : INDUSTRY_TAGS[i].id = cls.industry

\* extra_products of the named patterns and required_products of the
\* named industry (kb_query.py:292-307)
haiku_extra(cls) ==
  IF cls = NoClass THEN {}
  ELSE UNION {Range(ARCHITECTURE_PATTERNS[i].extra_products) \cap DOMAIN NODES :
                i \in {j \in 1..Len(ARCHITECTURE_PATTERNS) :
                         ARCHITECTURE_PATTERNS[j].id \in cls.patterns}}
       \cup (IF haiku_industry(cls) THEN industry_products(cls.industry) ELSE {})

\* sources of SmartRouter.route on a cache miss (kb_query.py:276-332)
route_sources(p, cls) ==
  LET s == haiku_sources(cls) \cup parse_prompt(p)
  IN  IF s = {} THEN {"src_oracle"} ELSE s

\* extra_products of SmartRouter.route on a cache miss
route_extra(p, cls) ==
  haiku_extra(cls)
  \cup (IF ~haiku_industry(cls) /\ match_industry(p) # ""
        THEN industry_products(match_industry(p)) ELSE {})

\* keep_set of SmartRouter.route on a cache miss (kb_query.py:335-336)
route_keep(p, cls) ==
  expand(route_sources(p, cls)) \cup route_extra(p, cls)

\* what the database does during a request: it answers, it cannot be
\* reached or queried (conn is None, or check_cache catches the error), or
\* the INSERT of cache_result fails and is rolled back
DbOutcomes == {"ok", "down", "write_fails"}

\* the collaborators of SmartRouter.route that failed on a cache miss: the
\* database with its cache table ("kb"), the classifier ("llm")
route_failed(cls, db) ==
  (IF db # "ok" THEN {"kb"} ELSE {}) \cup (IF cls = NoClass THEN {"llm"} ELSE {})

\* route_prompt with a working SmartRouter: route(prompt) with the
\* classifier answering cls (NoClass: no key or a failed call) and the
\* database doing db
RouteSmart(cls, db) ==
  /\ pc = "start"
  /\ LET hits == IF db # "down" THEN check_cache(prompt, kb_diagram_cache) ELSE {}
     IN  IF hits # {}
         THEN \E i \in hits :
                /\ sources' = kb_diagram_cache[i].sources
                /\ keep' = kb_diagram_cache[i].keep_set
                /\ title' = kb_diagram_cache[i].title
                /\ industry' = kb_diagram_cache[i].industry
                /\ tier' = 1
                /\ failed' = {}
                /\ UNCHANGED kb_diagram_cache
         ELSE /\ sources' = route_sources(prompt, cls)
              /\ keep' = route_keep(prompt, cls)
              /\ industry' = match_industry(prompt)
              /\ title' \in {with_industry(t, industry') : t \in build_title(sources')}
              /\ tier' = IF cls = NoClass THEN 3 ELSE 2
              /\ failed' = route_failed(cls, db)
              /\ kb_diagram_cache' =
                   IF db = "ok"
                   THEN Append(kb_diagram_cache,
                               [prompt |-> prompt, sources |-> sources',
                                keep_set |-> keep', industry |-> industry',
                                title |-> title'])
                   ELSE kb_diagram_cache
  /\ pc' = "routed"
  /\ UNCHANGED <<prompt, anti_patterns, PRODUCTS, nodes, zones, edges, old_result, png,
                 rules, requests, _cache, routes, sliced>>

(***************************************************************************)
(* generate.py: route_prompt, keyword fallback                             *)
(***************************************************************************)
\* Faulty variant of fallback_sources: the `if not sources` default is missing
fallback_sources_undefaulted(p) == parse_prompt(p)

\* sources of the fallback (generate.py:57-59)
fallback_sources(p) ==
  LET s == parse_prompt(p)
  IN  IF s = {} THEN {"src_oracle"} ELSE s

\* keep of the fallback (generate.py:61-73)
fallback_keep(p) ==
  LET ind_id == match_industry(p)
  IN  expand(fallback_sources(p))
      \cup (IF ind_id # "" THEN industry_products(ind_id) ELSE {})

\* route_prompt when SmartRouter cannot be imported or raises
RouteKeyword ==
  /\ pc = "start"
  /\ sources' = fallback_sources(prompt)
  /\ keep' = fallback_keep(prompt)
  /\ industry' = match_industry(prompt)
  /\ title' \in {with_industry(t, industry') : t \in build_title(sources')}
  /\ tier' = 3
  /\ failed' = {"router"}
  /\ pc' = "routed"
  /\ UNCHANGED <<prompt, anti_patterns, PRODUCTS, nodes, zones, edges, old_result,
                 png, kb_diagram_cache, rules, requests, _cache, routes, sliced>>
(***************************************************************************)
(* generate.py: main, anti-patterns and build_diagram                      *)
(***************************************************************************)
\* the rule-based anti_patterns list of main (generate.py:106-113)
main_anti_patterns(srcs, keep_set) ==
  (IF /\ srcs \cap {"src_kafka", "src_confluent", "src_kinesis"} # {}
      /\ srcs \cap {"src_oracle", "src_sqlserver", "src_postgresql", "src_mysql"} = {}
   THEN <<"Streaming-only - consider batch sources for backfill">> ELSE <<>>)
  \o
  (IF /\ srcs \cap {"src_salesforce", "src_workday", "src_hubspot"} # {}
      /\ "proc_dlp" \notin keep_set
   THEN <<"SaaS source without DLP - PII risk">> ELSE <<>>)

\* ids of the placed nodes: node_ids of build_diagram
ids_of(ns) == {ns[i].id : i \in 1..Len(ns)}

\* build_diagram(keep_set, ...): late binding into PRODUCTS, layout and
\* edge materialisation
build_diagram(keep_set) ==
  /\ PRODUCTS' = catalog_after(keep_set, PRODUCTS)
  /\ nodes' = place_nodes(_resolve_keep_set(keep_set, PRODUCTS), PRODUCTS')
  /\ zones' = zones_out(_resolve_keep_set(keep_set, PRODUCTS), PRODUCTS')
  /\ edges' = materialize_edges(rules, ids_of(nodes'), PRODUCTS')

\* main after routing: the anti-pattern rules, then build_diagram(keep, ...)
Build ==
  /\ pc = "routed"
  /\ anti_patterns' = main_anti_patterns(sources, keep)
  /\ build_diagram(keep)
  /\ pc' = "built"
  /\ UNCHANGED <<prompt, sources, keep, title, tier, industry, old_result, png,
                 kb_diagram_cache, rules, failed, requests, _cache, routes, sliced>>
(***************************************************************************)
(* generate.py: main, optional PNG and output                              *)
(***************************************************************************)
\* Faulty variant of Png: a slicing or rendering error is not caught by
\* the PNG try-block and reaches the handler of main, which prints the
\* error response
Png_fatal(rendered) ==
  /\ pc = "built"
  /\ old_result' = decide_products(prompt)
  /\ png' = rendered
  /\ failed' = IF rendered THEN failed ELSE failed \cup {"png"}
  /\ pc' = IF rendered THEN "png" ELSE "error"
  /\ UNCHANGED <<prompt, sources, keep, title, tier, industry, anti_patterns,
                 PRODUCTS, nodes, zones, edges, kb_diagram_cache, rules, requests, _cache, routes, sliced>>

\* the PNG try-block of main: decide_products runs, then slicing and
\* rendering succeed (rendered) or raise / find no master blueprint
Png(rendered) ==
  /\ pc = "built"
  /\ old_result' = decide_products(prompt)
  /\ png' = rendered
  /\ failed' = IF rendered THEN failed ELSE failed \cup {"png"}
  /\ pc' = "png"
  /\ UNCHANGED <<prompt, sources, keep, title, tier, industry, anti_patterns,
                 PRODUCTS, nodes, zones, edges, kb_diagram_cache, rules, requests, _cache, routes, sliced>>

\* main prints the JSON output and exits
Output ==
  /\ pc = "png"
  /\ pc' = "done"
  /\ UNCHANGED <<prompt, sources, keep, title, tier, industry, anti_patterns,
                 PRODUCTS, nodes, zones, edges, old_result, png, kb_diagram_cache, rules,
                 failed, requests, _cache, routes, sliced>>

Next ==
  \/ \E cls \in HaikuResults \cup {NoClass}, db \in DbOutcomes : RouteSmart(cls, db)
  \/ RouteKeyword
  \/ Build
  \/ \E rendered \in BOOLEAN : Png(rendered)
  \/ Output

Spec == Init /\ [][Next]_vars

(***************************************************************************)
(* diagram_builder.py: build_diagram called on its own                     *)
(***************************************************************************)
\* number of ids added to a base selection
MaxSelected == 3
\* number of rules of a small rule table
MaxRules == 2

\* ids a caller may add to a selection: catalog ids of every zone,
\* blueprint ids, and an id no table knows
SelectionPool ==
  {"splunk_siem", "dynatrace_apm", "pagerduty_inc", "wiz_cspm", "archer_grc",
   "entra_id", "src_mysql", "src_confluent", "con_hub", "executives",
   "cloud_scheduler", "audit_logs", "data_catalog", "no_such_product"}

\* the selections build_diagram is called with: nothing, or a closure the
\* router produces, plus up to MaxSelected ids of the pool
BaseSelections ==
  {{}, expand({"src_oracle"}), expand({"src_kafka", "src_salesforce", "src_s3"})}

DirectSelections ==
  {b \cup e : b \in BaseSelections,
              e \in {x \in SUBSET SelectionPool : Cardinality(x) <= MaxSelected}}

\* rules of the shape of EDGE_RULES entries, several of which produce the
\* pair (oracle_db, datastream); one names a source no catalog knows and
\* carries a crossesBoundary key of its own, one names an unknown target
RulePool ==
  {[from_any |-> <<"oracle_db">>, to |-> "datastream", label |-> "CDC",
    edgeType |-> "data",
    security |-> [transport |-> "TLS 1.3 + IPSec", auth |-> "Service Account",
                  classification |-> "PII / Confidential", private |-> TRUE]],
   [from_any |-> <<"cloud_iam", "oracle_db">>, to |-> "datastream",
    label |-> "Authorize", edgeType |-> "identity"],
   [from_any |-> <<"oracle_db", "cloud_iam", "oracle_db">>, to |-> "datastream",
    label |-> "Replicate", edgeType |-> "data"],
   [from_any |-> <<"analysts", "oracle_db">>, to |-> "analysts",
    label |-> "Read", edgeType |-> "control"],
   [from_any |-> <<"no_such_product", "cloud_iam">>, to |-> "datastream",
    label |-> "Grant", edgeType |-> "identity", crossesBoundary |-> TRUE],
   [from_any |-> <<"oracle_db">>, to |-> "no_such_product",
    label |-> "Export", edgeType |-> "data"]}

RuleTables ==
  UNION {[1..n -> RulePool] : n \in 0..MaxRules}

\* selections the small rule tables are applied to
RuleSelections ==
  SUBSET {"src_oracle", "conn_iam", "ing_datastream", "con_looker", "no_such_product"}

\* selections that differ in their consumer personas only: the closure of
\* the default source with any of four further consumer ids
ConsumerSelections ==
  {expand({"src_oracle"}) \cup e :
     e \in SUBSET {"executives", "data_scientists", "downstream_sys", "con_tableau"}}

InitDiagram ==
  /\ pc = "call"
  /\ \/ keep \in DirectSelections /\ rules = EDGE_RULES
     \/ keep \in ConsumerSelections /\ rules = EDGE_RULES
     \/ keep \in RuleSelections /\ rules \in RuleTables
  /\ prompt = ""
  /\ sources = {}
  /\ title = ""
  /\ tier = 0
  /\ industry = ""
  /\ anti_patterns = <<>>
  /\ PRODUCTS = PRODUCTS_init
  /\ nodes = <<>>
  /\ zones = <<>>
  /\ edges = <<>>
  /\ old_result = NoResult
  /\ png = FALSE
  /\ kb_diagram_cache = <<>>
  /\ failed = {}
  /\ requests = <<>>
  /\ _cache = <<>>
  /\ routes = <<>>
  /\ sliced = NoSlice

\* a caller's build_diagram(keep_set, title, decisions, anti_patterns)
BuildDirect ==
  /\ pc = "call"
  /\ build_diagram(keep)
  /\ pc' = "returned"
  /\ UNCHANGED <<prompt, sources, keep, title, tier, industry, anti_patterns,
                 old_result, png, kb_diagram_cache, rules, failed, requests, _cache, routes, sliced>>

NextDiagram == BuildDirect

SpecDiagram == InitDiagram /\ [][NextDiagram]_vars

(***************************************************************************)
(* diagram_builder.py: several build_diagram calls in one process          *)
(***************************************************************************)
\* number of build_diagram calls the process serves, one after another or
\* at the same time
MaxRequests == 2

\* the selections of the calls: ids bound late, an id mapped by ID_MAP,
\* catalog ids and an id no table knows
RequestSelections ==
  {{"src_confluent"}, {"src_confluent", "con_tableau"}, {"src_mysql", "con_tableau"},
   {"bigquery", "no_such_product"}}

\* a call that has not started its resolution loop
new_request(keep_set) ==
  [pc |-> "resolving", keep_set |-> keep_set, todo |-> keep_set, resolved |-> {},
   observed |-> {}, nodes |-> <<>>, zones |-> <<>>, edges |-> <<>>]

InitRequests ==
  /\ pc = "serving"
  /\ requests \in [1..MaxRequests -> {new_request(S) : S \in RequestSelections}]
  /\ prompt = ""
  /\ sources = {}
  /\ keep = {}
  /\ title = ""
  /\ tier = 0
  /\ industry = ""
  /\ anti_patterns = <<>>
  /\ PRODUCTS = PRODUCTS_init
  /\ nodes = <<>>
  /\ zones = <<>>
  /\ edges = <<>>
  /\ old_result = NoResult
  /\ png = FALSE
  /\ kb_diagram_cache = <<>>
  /\ rules = EDGE_RULES
  /\ failed = {}
  /\ _cache = <<>>
  /\ routes = <<>>
  /\ sliced = NoSlice

\* one iteration of the loop of _resolve_keep_set in call p, for the id
\* pid: the id is resolved against the shared PRODUCTS, which gets an
\* entry if the id is bound late; the call records the ids it found in
\* PRODUCTS that were not there at process start
ResolveStep(p, pid) ==
  /\ requests[p].pc = "resolving"
  /\ pid \in requests[p].todo
  /\ PRODUCTS' = catalog_after({pid}, PRODUCTS)
  /\ requests' =
       [requests EXCEPT
          ![p].todo = @ \ {pid},
          ![p].resolved = @ \cup _resolve_keep_set({pid}, PRODUCTS),
          ![p].observed = @ \cup ({pid} \cap (DOMAIN PRODUCTS \ DOMAIN PRODUCTS_init))]
  /\ UNCHANGED <<pc, prompt, sources, keep, title, tier, industry, anti_patterns,
                 nodes, zones, edges, old_result, png, kb_diagram_cache, rules, failed,
                 _cache, routes, sliced>>

\* the rest of build_diagram in call p, after the resolution loop: layout
\* and edge materialisation, reading PRODUCTS by key
Layout(p) ==
  /\ requests[p].pc = "resolving"
  /\ requests[p].todo = {}
  /\ LET placed == place_nodes(requests[p].resolved, PRODUCTS)
     IN  requests' =
           [requests EXCEPT
              ![p].pc = "returned",
              ![p].nodes = placed,
              ![p].zones = zones_out(requests[p].resolved, PRODUCTS),
              ![p].edges = materialize_edges(rules, ids_of(placed), PRODUCTS)]
  /\ UNCHANGED <<pc, prompt, sources, keep, title, tier, industry, anti_patterns,
                 PRODUCTS, nodes, zones, edges, old_result, png, kb_diagram_cache, rules,
                 failed, _cache, routes, sliced>>

NextRequests ==
  \E p \in DOMAIN requests :
    \/ \E pid \in requests[p].todo : ResolveStep(p, pid)
    \/ Layout(p)

SpecRequests == InitRequests /\ [][NextRequests]_vars

(***************************************************************************)
(* Properties                                                              *)
(***************************************************************************)
\* main has routed the prompt
Routed == pc # "start"

\* main has built the diagram
Diagrammed == pc \in {"built", "png", "done", "returned"}

\* C1 (idempotent closure): for every set B of source ids a request can
\* select, expanding the expansion of B adds nothing:
\* expand(expand(B)) = expand(B); in particular re-expanding the closure
\* handed on by the router leaves it unchanged.
C1_IdempotentClosure ==
  Routed =>
    /\ \A B \in SUBSET sources : expand(expand(B)) = expand(B)
    /\ tier # 1 => expand(keep) = keep

\* a closure of two sources of different types has been computed and is a
\* fixed point of expansion
C1_Witness ==
  /\ pc = "routed"
  /\ {"src_oracle", "src_kafka"} \subseteq sources
  /\ keep = expand(sources)
  /\ expand(keep) = keep

\* C2 (monotonic closure): every base id is still in the closure handed to
\* layout and edge materialisation: sources \subseteq keep after routing, and
\* B \subseteq expand(B) for every set B of selected source ids.
C2_MonotonicClosure ==
  Routed =>
    /\ sources \subseteq keep
    /\ \A B \in SUBSET sources : B \subseteq expand(B)

\* a source named only by the LLM classifier, wired to nothing, is in the
\* closure
C2_Witness ==
  /\ pc = "routed"
  /\ tier = 2
  /\ "src_rabbitmq" \in sources
  /\ "src_rabbitmq" \in keep
  /\ "src_rabbitmq" \notin auto_wire(sources)

\* the roles the always-on set is said to cover: identity, secret storage,
\* bronze / silver / gold, default BI, observability, governance,
\* orchestration
MandatoryRoles ==
  {"conn_iam", "conn_secret_manager", "bronze", "silver", "gold", "serve_looker",
   "pillar_obs", "pillar_gov", "pillar_orch"}

\* C3 (always-on presence): whatever the prompt and the detected sources,
\* the closure contains all of ALWAYS_ON, and ALWAYS_ON covers the
\* mandatory roles.
C3_AlwaysOn ==
  Routed => ALWAYS_ON \subseteq keep /\ MandatoryRoles \subseteq keep

\* the empty prompt has been routed and its closure holds the always-on set
C3_Witness ==
  /\ pc = "routed"
  /\ prompt = ""
  /\ ALWAYS_ON \subseteq keep

\* C8 (non-empty default): the routed base set is never empty, and when no
\* source keyword matches the prompt and no LLM answer is used (tier 3) it
\* is exactly the default {src_oracle}; so the diagram is built from a
\* non-empty selection.
C8_NonEmptyDefault ==
  Routed =>
    /\ sources # {}
    /\ keep # {}
    /\ (tier = 3 /\ parse_prompt(prompt) = {}) => sources = {"src_oracle"}

\* the empty prompt, and a prompt of words none of which is a source
\* keyword, went through to a built diagram with the default source
C8_Witness ==
  /\ pc = "built"
  /\ prompt \in {"", "HIPAA hospital data"}
  /\ parse_prompt(prompt) = {}
  /\ tier = 3
  /\ sources = {"src_oracle"}
  /\ \E i \in 1..Len(nodes) : nodes[i].id = "oracle_db"

\* the selection as build_diagram sees it: the resolved ids
Selection == _resolve_keep_set(keep, PRODUCTS)

\* the ends of edge i
pair_of(i) == <<edges[i].from, edges[i].to>>

\* rule r can produce the pair (f, t)
produces(r, f, t) ==
  rules[r].to = t /\ \E k \in 1..Len(rules[r].from_any) : rules[r].from_any[k] = f

\* C4 (edge gating): both ends of every edge of the diagram are nodes of
\* the diagram, every node is in the resolved selection, and the blueprint
\* edges get_edges_for returns have both ends in the selection it is given.
C4_EdgeGating ==
  Diagrammed =>
    /\ \A i \in 1..Len(edges) :
         /\ edges[i].from \in ids_of(nodes) /\ edges[i].to \in ids_of(nodes)
         /\ edges[i].from \in Selection /\ edges[i].to \in Selection
    /\ \A i \in 1..Len(get_edges_for(keep)) :
         get_edges_for(keep)[i].from \in keep /\ get_edges_for(keep)[i].to \in keep

\* a diagram with edges in which a rule's target is a node while one of
\* the rule's sources is not, so that gating withheld an edge
C4_Witness ==
  /\ pc = "returned"
  /\ Len(edges) > 0
  /\ \E r \in 1..Len(rules) :
       /\ rules[r].to \in ids_of(nodes)
       /\ \E k \in 1..Len(rules[r].from_any) : rules[r].from_any[k] \notin ids_of(nodes)

\* C5 (edge completeness): for every rule and every source of the rule in
\* the selection, if the rule's target is in the selection too the edge
\* list holds exactly one edge (source, target); and every edge is such a
\* pair of some rule, so presence of both ends is the sole condition.
C5_EdgeCompleteness ==
  Diagrammed =>
    /\ \A r \in 1..Len(rules) : \A k \in 1..Len(rules[r].from_any) :
         (rules[r].from_any[k] \in Selection /\ rules[r].to \in Selection)
           => Cardinality({i \in 1..Len(edges) :
                             pair_of(i) = <<rules[r].from_any[k], rules[r].to>>}) = 1
    /\ \A i \in 1..Len(edges) :
         \E r \in 1..Len(rules) : produces(r, edges[i].from, edges[i].to)

\* a rule with two sources in the selection has given an edge for each
C5_Witness ==
  /\ pc = "returned"
  /\ \E r \in 1..Len(rules) : \E k1, k2 \in 1..Len(rules[r].from_any) :
       /\ rules[r].from_any[k1] # rules[r].from_any[k2]
       /\ {rules[r].from_any[k1], rules[r].from_any[k2], rules[r].to} \subseteq Selection
       /\ \E i, j \in 1..Len(edges) :
            /\ pair_of(i) = <<rules[r].from_any[k1], rules[r].to>>
            /\ pair_of(j) = <<rules[r].from_any[k2], rules[r].to>>

\* the first rule, in table order, that can produce the pair of edge i
first_rule(i) ==
  CHOOSE r \in 1..Len(rules) :
    /\ produces(r, edges[i].from, edges[i].to)
    /\ \A q \in 1..(r - 1) : ~produces(q, edges[i].from, edges[i].to)

\* C6 (edge dedup): no (from, to) pair appears twice in the edge list,
\* whatever rules produce it, and each edge has the label, the category
\* and the security metadata of the first rule in table order that
\* produces its pair.
C6_EdgeDedup ==
  Diagrammed =>
    /\ \A i, j \in 1..Len(edges) : i # j => pair_of(i) # pair_of(j)
    /\ \A i \in 1..Len(edges) :
         /\ \E r \in 1..Len(rules) : produces(r, edges[i].from, edges[i].to)
         /\ edges[i].label = rules[first_rule(i)].label
         /\ edges[i].edgeType = rules[first_rule(i)].edgeType
         /\ ("security" \in DOMAIN edges[i]) = ("security" \in DOMAIN rules[first_rule(i)])
         /\ "security" \in DOMAIN edges[i]
              => edges[i].security = rules[first_rule(i)].security

\* two rules with different labels and categories produce the pair
\* (oracle_db, datastream), both ends are nodes, and the one edge of that
\* pair carries what the earlier rule says
C6_Witness ==
  /\ pc = "returned"
  /\ \E r1, r2 \in 1..Len(rules) :
       /\ r1 < r2
       /\ produces(r1, "oracle_db", "datastream")
       /\ produces(r2, "oracle_db", "datastream")
       /\ rules[r1].label # rules[r2].label
       /\ rules[r1].edgeType # rules[r2].edgeType
       /\ \E i \in 1..Len(edges) :
            /\ pair_of(i) = <<"oracle_db", "datastream">>
            /\ first_rule(i) = r1
            /\ edges[i].label = rules[r1].label

\* rectangles a and b share no interior point
disjoint(a, b) ==
  \/ a.x + a.w <= b.x
  \/ b.x + b.w <= a.x
  \/ a.y + a.h <= b.y
  \/ b.y + b.h <= a.y

\* C7 (zone non-overlap): no two emitted zone rectangles with the same
\* parent intersect, whatever the number of nodes in each zone.
C7_ZoneNonOverlap ==
  Diagrammed =>
    \A i, j \in 1..Len(zones) :
      (i # j /\ zones[i].parent = zones[j].parent) => disjoint(zones[i], zones[j])

\* a diagram with all six top-level zones, both zones of every column of
\* the gcp box, and a source zone of more than one node
C7_Witness ==
  /\ pc = "returned"
  /\ {"consumer", "ext-identity", "source", "gcp", "ext-log", "ext-alert",
      "gcp-security", "governance", "serving", "data-pipeline", "gcp-obs",
      "orchestration"} \subseteq {zones[i].id : i \in 1..Len(zones)}
  /\ Cardinality({i \in 1..Len(nodes) : nodes[i].subZone = "source"}) > 1

\* the on-prem relational sources (generate.py:109)
OnPremRelational == {"src_oracle", "src_sqlserver", "src_postgresql", "src_mysql"}

\* the diagram node that stands for blueprint id pid
node_of(pid) ==
  IF pid \in DOMAIN PRODUCTS_init THEN pid
  ELSE IF pid \in DOMAIN ID_MAP THEN ID_MAP[pid]
  ELSE pid

\* C9 (on-prem CDC scenario): for "Oracle CDC to BigQuery" the base set
\* holds src_oracle, and for every prompt naming an on-prem relational
\* source the base set holds its id, the closure holds conn_vpn and
\* ing_datastream, and the edge list holds an edge of category data from
\* the source's node to datastream.
C9_OnPremCdc ==
  (Diagrammed /\ tier # 1) =>
    /\ prompt = "Oracle CDC to BigQuery" => "src_oracle" \in sources
    /\ \A s \in parse_prompt(prompt) \cap OnPremRelational :
         /\ s \in sources
         /\ {"conn_vpn", "ing_datastream"} \subseteq keep
         /\ \E i \in 1..Len(edges) :
              /\ edges[i].from = node_of(s)
              /\ edges[i].to = "datastream"
              /\ edges[i].edgeType = "data"

\* the diagram of "Oracle CDC to BigQuery" is built and has the CDC edge
C9_Witness ==
  /\ pc = "built"
  /\ prompt = "Oracle CDC to BigQuery"
  /\ sources = {"src_oracle"}
  /\ \E i \in 1..Len(edges) :
       /\ pair_of(i) = <<"oracle_db", "datastream">>
       /\ edges[i].label = "CDC"

\* C10 (streaming scenario), as claimed: for "Kafka streaming to BigQuery
\* with Dataflow" the closure holds ing_pubsub and the Dataflow ids and
\* not ing_datastream, and the anti_patterns list of the result is empty.
C10_KafkaStreaming ==
  (pc = "done" /\ prompt = "Kafka streaming to BigQuery with Dataflow" /\ tier = 3) =>
    /\ {"ing_pubsub", "ing_dataflow", "proc_dataflow"} \subseteq keep
    /\ "ing_datastream" \notin keep
    /\ anti_patterns = <<>>

\* the zone of the placed node with id pid
zone_at(pid) == nodes[CHOOSE i \in 1..Len(nodes) : nodes[i].id = pid].subZone

\* edge i carries the crossesBoundary flag
flagged(i) == "crossesBoundary" \in DOMAIN edges[i] /\ edges[i].crossesBoundary

\* edge i leads from the external source zone into a zone inside the
\* platform, or into the consumer zone
crossing(i) ==
  \/ zone_at(edges[i].from) = "source" /\ zone_at(edges[i].to) \in GCP_ZONES
  \/ zone_at(edges[i].to) = "consumer"

\* C13 (boundary-crossing flag): an edge of the diagram is flagged exactly
\* when its source node is in the source zone and its target node in a zone
\* inside the platform, or its target node is in the consumer zone; a
\* crossesBoundary key of the rule that produced the edge has no influence.
C13_BoundaryFlag ==
  Diagrammed => \A i \in 1..Len(edges) : flagged(i) = crossing(i)

\* a rule table whose first rule for an edge carries a crossesBoundary key
\* of its own gave an unflagged edge inside the platform, next to a
\* flagged edge from the source zone into the platform
C13_Witness ==
  /\ pc = "returned"
  /\ \E i \in 1..Len(edges) :
       /\ "crossesBoundary" \in DOMAIN rules[first_rule(i)]
       /\ ~flagged(i)
       /\ zone_at(edges[i].from) \in GCP_ZONES
  /\ \E j \in 1..Len(edges) :
       /\ flagged(j)
       /\ zone_at(edges[j].from) = "source"
       /\ zone_at(edges[j].to) \in GCP_ZONES

\* C14 (security on boundary-crossing edges), as claimed: every flagged
\* edge carries security metadata, the rule's own when the rule that
\* produced it has a security block.
C14_BoundarySecurity ==
  Diagrammed =>
    \A i \in 1..Len(edges) :
      flagged(i) =>
        /\ "security" \in DOMAIN edges[i]
        /\ "security" \in DOMAIN rules[first_rule(i)]
             => edges[i].security = rules[first_rule(i)].security

\* pid has a catalog entry, its own or the one ID_MAP names
resolvable(pid) ==
  \/ pid \in DOMAIN PRODUCTS
  \/ pid \in DOMAIN ID_MAP /\ ID_MAP[pid] \in DOMAIN PRODUCTS

\* the ids the rule table names
rule_ids == UNION {Range(rules[r].from_any) \cup {rules[r].to} : r \in 1..Len(rules)}

\* C20 (unknown ids are skipped): after build_diagram returns, an id of the
\* selection or of an edge rule that resolves to no catalog entry is the id
\* of no node and the end of no edge, while every id of the selection that
\* does resolve has its node and every rule between two nodes has its edge.
C20_UnknownIdSkipped ==
  Diagrammed =>
    /\ \A pid \in keep \cup rule_ids :
         ~resolvable(pid) =>
           /\ pid \notin ids_of(nodes)
           /\ \A i \in 1..Len(edges) : edges[i].from # pid /\ edges[i].to # pid
    /\ \A pid \in keep :
         resolvable(pid) =>
           (IF pid \in DOMAIN PRODUCTS THEN pid ELSE ID_MAP[pid]) \in ids_of(nodes)
    /\ \A r \in 1..Len(rules) : \A k \in 1..Len(rules[r].from_any) :
         {rules[r].from_any[k], rules[r].to} \subseteq ids_of(nodes)
           => \E i \in 1..Len(edges) : pair_of(i) = <<rules[r].from_any[k], rules[r].to>>

\* build_diagram returned nodes and an edge for a selection holding an
\* unknown id, under a rule table one of whose rules names an unknown
\* source next to a placed one and another an unknown target with a
\* placed source
C20_Witness ==
  /\ pc = "returned"
  /\ \E pid \in keep : ~resolvable(pid)
  /\ \E r \in 1..Len(rules) :
       /\ rules[r].to \in ids_of(nodes)
       /\ \E k \in 1..Len(rules[r].from_any) : ~resolvable(rules[r].from_any[k])
       /\ \E i \in 1..Len(edges) : rules[r].to = edges[i].to /\ first_rule(i) = r
  /\ \E r \in 1..Len(rules) :
       /\ ~resolvable(rules[r].to)
       /\ \E k \in 1..Len(rules[r].from_any) : rules[r].from_any[k] \in ids_of(nodes)
  /\ Len(nodes) > 1

\* ids of the emitted zone rectangles
zone_ids == {zones[i].id : i \in 1..Len(zones)}

\* the emitted rectangle of zone z
rect_of(z) == zones[CHOOSE i \in 1..Len(zones) : zones[i].id = z]

\* the zone list a direct build_diagram call gives for keep_set
zones_for(keep_set) ==
  zones_out(_resolve_keep_set(keep_set, PRODUCTS_init), catalog_after(keep_set, PRODUCTS_init))

\* height of zone z in a zone list, 0 when the list has no such zone
height_in(zs, z) ==
  IF \E i \in 1..Len(zs) : zs[i].id = z
  THEN zs[CHOOSE i \in 1..Len(zs) : zs[i].id = z].h
  ELSE 0

\* the consumer personas of the catalog
ConsumerPersonas == {pid \in DOMAIN PRODUCTS_init : PRODUCTS_init[pid].zone = "consumer"}

\* C11 (layout locality), as claimed: when the selection already has a
\* consumer zone and one more consumer persona is added to it, the consumer
\* zone grows by one row (V_SPACE) and every other zone rectangle of the
\* two layouts is the same.
C11_LayoutLocality ==
  (pc = "returned" /\ "consumer" \in zone_ids) =>
    \A c \in ConsumerPersonas \ Selection :
      /\ height_in(zones_for(keep \cup {c}), "consumer") - height_in(zones, "consumer") = V_SPACE
      /\ {z \in Range(zones_for(keep \cup {c})) : z.id # "consumer"}
           = {z \in Range(zones) : z.id # "consumer"}

\* number of resolved ids of the selection whose catalog zone is z
selected_in(z) == Cardinality({pid \in Selection : zone_of(PRODUCTS, pid) = z})

\* the pipeline sections, which have rows of nodes but no rectangle
Sections == {"processing", "landing", "ingestion"}

\* y of the placed nodes of zone z
node_ys(z) == {nodes[i].y : i \in {j \in 1..Len(nodes) : nodes[j].subZone = z}}

\* zone z takes room in the layout: a rectangle, or for a section a row
has_band(z) == IF z \in Sections THEN node_ys(z) # {} ELSE z \in zone_ids

\* top and height of the room zone z takes
band_y(z) ==
  IF z \in Sections
  THEN (CHOOSE y \in node_ys(z) : \A v \in node_ys(z) : y <= v) - NODE_HALF
  ELSE rect_of(z).y

band_h(z) ==
  IF z \in Sections
  THEN (CHOOSE y \in node_ys(z) : \A v \in node_ys(z) : y >= v)
       - (CHOOSE y \in node_ys(z) : \A v \in node_ys(z) : y <= v) + NODE_W
  ELSE rect_of(z).h

\* the zones of seq that take room are stacked from cursor on with one GAP
\* between neighbours, the others taking no room at all
RECURSIVE stacked(_, _)
stacked(seq, cursor) ==
  IF Len(seq) = 0 THEN TRUE
  ELSE IF ~has_band(Head(seq)) THEN stacked(Tail(seq), cursor)
  ELSE /\ band_y(Head(seq)) = cursor
       /\ stacked(Tail(seq), cursor + band_h(Head(seq)) + GAP)

\* the height of that stack
RECURSIVE stack_height(_)
stack_height(seq) ==
  IF Len(seq) = 0 THEN 0
  ELSE LET rest == stack_height(Tail(seq))
       IN  IF ~has_band(Head(seq)) THEN rest
           ELSE IF rest = 0 THEN band_h(Head(seq))
           ELSE band_h(Head(seq)) + GAP + rest

\* the zones with a rectangle of their own that hold nodes directly
LeafZones ==
  {"consumer", "ext-identity", "source", "gcp-security", "governance", "serving",
   "gcp-obs", "orchestration", "medallion", "ext-log", "ext-alert"}

\* the stacks of the layout: the bands from the top of the canvas down,
\* the outside-left column, the three columns of the gcp wrapper and the
\* rows of the data-pipeline band
only_present_emitted ==
  /\ \A z \in LeafZones : (z \in zone_ids) = (selected_in(z) > 0)
  /\ ("gcp" \in zone_ids) = (\E z \in GCP_ZONES : selected_in(z) > 0)
  /\ ("data-pipeline" \in zone_ids)
       = (\E z \in Sections \cup {"medallion"} : selected_in(z) > 0)

columns_packed ==
  /\ "gcp" \in zone_ids =>
       LET top == rect_of("gcp").y + GCP_PAD + GCP_LABEL
       IN  /\ stacked(<<"gcp-security", "governance">>, top)
           /\ stacked(<<"serving", "data-pipeline">>, top)
           /\ stacked(<<"gcp-obs", "orchestration">>, top)
           /\ rect_of("gcp").h =
                GCP_PAD + GCP_LABEL
                + Max(Max(stack_height(<<"gcp-security", "governance">>),
                          stack_height(<<"serving", "data-pipeline">>)),
                      stack_height(<<"gcp-obs", "orchestration">>))
                + GCP_PAD
  /\ "data-pipeline" \in zone_ids =>
       /\ stacked(<<"medallion", "processing", "landing", "ingestion">>,
                  rect_of("data-pipeline").y + LABEL_H + ZONE_PAD)
       /\ rect_of("data-pipeline").h =
            LABEL_H + ZONE_PAD
            + stack_height(<<"medallion", "processing", "landing", "ingestion">>)
            + ZONE_PAD
  /\ stacked(<<"consumer", "ext-identity", "source">>, 80)
  /\ "ext-log" \in zone_ids => rect_of("ext-log").x = GCP_X
  /\ "ext-alert" \in zone_ids =>
       rect_of("ext-alert").x =
         IF "ext-log" \in zone_ids
         THEN rect_of("ext-log").x + rect_of("ext-log").w + GAP ELSE GCP_X

bands_packed ==
  /\ stacked(<<"consumer", "gcp", "ext-log">>, 80)
  /\ stacked(<<"consumer", "gcp", "ext-alert">>, 80)

in_layer(keep_set, l) == {pid \in keep_set \cap DOMAIN NODES : NODES[pid].layer = l}

\* the ingestion, landing and processing products of decide_products
SLICER_STAGES ==
  [L3 |-> {"bq_dts", "datastream", "pubsub", "dataflow_ing", "fivetran", "matillion",
           "cloud_functions", "data_fusion", "storage_transfer"},
   L4 |-> {"gcs_raw", "bq_staging"},
   L5 |-> {"dataform", "dataflow_proc", "dataproc"}]

\* C15 (no required stage unfilled), as claimed: for every prompt the
\* routed selection holds an ingestion (L3), a landing (L4) and a
\* processing (L5) node, and so does the selection decide_products returns
\* for the same prompt.
C15_StagesFilled ==
  /\ Routed => \A l \in {"L3", "L4", "L5"} : in_layer(keep, l) # {}
  /\ pc \in {"png", "done"} =>
       \A l \in {"L3", "L4", "L5"} : old_result.keep_set \cap SLICER_STAGES[l] # {}

\* the connectivity, ingestion and landing products decide_products adds
\* for the source categories it detects
SLICER_ADDITIONS ==
  {"cloud_vpn", "vpc_sc", "entra_id", "cyberark", "cloud_armor", "apigee"}
  \cup SLICER_STAGES.L3 \cup SLICER_STAGES.L4

\* the prompt made of the vocabulary words with indices I
prompt_of(I) == JoinWith(words_of(I, 1), " ")

\* the sets of vocabulary words a prompt is made of
WordSets == {L \in SUBSET (1..Len(Vocabulary)) : Cardinality(L) <= MaxWords}

\* the sets of sources within the selections a request can route
SourceSets ==
  UNION {SUBSET route_sources(p, cls) : p \in Prompts, cls \in HaikuResults \cup {NoClass}}

\* the prompts tabulated over the word sets
worded == [K \in WordSets |-> prompt_of(K)] @@ <<>>

\* auto_wire tabulated over the source sets
wired == [A \in SourceSets |-> auto_wire(A)] @@ <<>>

\* the category additions of decide_products tabulated over the word sets
added ==
  [K \in WordSets |-> decide_products(worded[K]).keep_set \cap SLICER_ADDITIONS] @@ <<>>

keyword_classified ==
  /\ tier = 3
  /\ sources = fallback_sources(prompt)
  /\ keep = fallback_keep(prompt)

\* the diagram document holds a node for every id of the routed selection,
\* with zones and edges
diagram_returned ==
  /\ ids_of(nodes) = _resolve_keep_set(keep, PRODUCTS)
  /\ zones # <<>>
  /\ edges # <<>>

C18_CatalogUnchanged ==
  Diagrammed => PRODUCTS = PRODUCTS_init


\* the diagram build_diagram returns for a selection when the call runs
\* alone in a fresh process
alone(keep_set) ==
  LET catalog == catalog_after(keep_set, PRODUCTS_init)
      placed == place_nodes(_resolve_keep_set(keep_set, PRODUCTS_init), catalog)
  IN  [nodes |-> placed,
       zones |-> zones_out(_resolve_keep_set(keep_set, PRODUCTS_init), catalog),
       edges |-> materialize_edges(EDGE_RULES, ids_of(placed), catalog)]

\* every returned call has the diagram it has when it runs alone
same_as_alone ==
  \A p \in DOMAIN requests :
    requests[p].pc = "returned" =>
      /\ requests[p].nodes = alone(requests[p].keep_set).nodes
      /\ requests[p].zones = alone(requests[p].keep_set).zones
      /\ requests[p].edges = alone(requests[p].keep_set).edges

\* C19 (independent requests), as claimed: whatever the order and
\* interleaving of the calls, each returned call has the diagram it has
\* when it runs alone, and no call has found in PRODUCTS an entry that
\* another call wrote.
C19_Independent ==
  /\ same_as_alone
  /\ \A p \in DOMAIN requests : requests[p].observed = {}


(***************************************************************************)
(* Terminal stages and processing engines                                  *)
(***************************************************************************)
\* the terminal stages of decide_products: medallion, BI, observability and
\* audit, governance and catalog
TERMINAL_STAGES ==
  {"bronze", "silver", "gold", "looker", "cloud_monitoring", "cloud_logging",
   "audit_logs", "pagerduty_inc", "dataplex", "data_catalog"}

\* the processing engines of L5
PROCESSING_ENGINES == {"dataform", "dataflow_proc", "dataproc"}

\* C21: for every prompt the keep_set of decide_products holds bronze, silver
\* and gold, looker, the observability and audit nodes, the governance and
\* catalog nodes, and the default orchestrator cloud_composer
C21_TerminalStages ==
  pc \in {"png", "done"} =>
    TERMINAL_STAGES \cup {"cloud_composer"} \subseteq old_result.keep_set

\* the part of C21 that does not depend on the prompt: the terminal stages
\* and one of the two orchestrators
C21_StagesAndAnOrchestrator ==
  pc \in {"png", "done"} =>
    /\ TERMINAL_STAGES \subseteq old_result.keep_set
    /\ Cardinality(old_result.keep_set \cap {"cloud_composer", "cloud_scheduler"}) = 1

\* C22: for every prompt exactly one of dataform, dataflow_proc and dataproc
\* is selected, both by decide_products and in the diagram of the request
C22_OneEngine ==
  /\ pc \in {"png", "done"} =>
       Cardinality(old_result.keep_set \cap PROCESSING_ENGINES) = 1
  /\ Diagrammed =>
       Cardinality(ids_of(nodes) \cap PROCESSING_ENGINES) = 1

\* the part of C22 that is about decide_products alone
C22_OneEngineDecided ==
  pc \in {"png", "done"} =>
    Cardinality(old_result.keep_set \cap PROCESSING_ENGINES) = 1


(***************************************************************************)
(* Node cards and zone rectangles                                          *)
(***************************************************************************)
\* the placed node with id pid
placed(pid) == nodes[CHOOSE i \in 1..Len(nodes) : nodes[i].id = pid]

\* the NODE_W square centred on (n.x, n.y) lies inside rectangle r
card_inside(n, r) ==
  /\ r.x <= n.x - NODE_HALF /\ n.x + NODE_HALF <= r.x + r.w
  /\ r.y <= n.y - NODE_HALF /\ n.y + NODE_HALF <= r.y + r.h

\* the pipeline order of the storage tiers
MEDALLION_ORDER == <<"bronze", "silver", "gold">>

\* C23 (medallion row): the placed storage tiers share one y, their x grows
\* in the order bronze, silver, gold, and their cards lie inside the
\* medallion rectangle
C23_MedallionRow ==
  Diagrammed =>
    LET tiers == {i \in 1..3 : MEDALLION_ORDER[i] \in ids_of(nodes)}
    IN  /\ \A i, j \in tiers :
             /\ placed(MEDALLION_ORDER[i]).y = placed(MEDALLION_ORDER[j]).y
             /\ i < j => placed(MEDALLION_ORDER[i]).x < placed(MEDALLION_ORDER[j]).x
        /\ \A i \in 1..Len(nodes) :
             nodes[i].subZone = "medallion" =>
               /\ nodes[i].id \in Range(MEDALLION_ORDER)
               /\ "medallion" \in {zones[k].id : k \in 1..Len(zones)}
               /\ card_inside(nodes[i], rect_of("medallion"))

\* a returned diagram with the three storage tiers placed
C23_Witness ==
  /\ pc = "returned"
  /\ Range(MEDALLION_ORDER) \subseteq ids_of(nodes)
  /\ placed("bronze").x + MEDAL_SPACE = placed("silver").x
  /\ placed("silver").x + MEDAL_SPACE = placed("gold").x


\* rectangle a lies inside rectangle b
rect_inside(a, b) ==
  /\ b.x <= a.x /\ a.x + a.w <= b.x + b.w
  /\ b.y <= a.y /\ a.y + a.h <= b.y + b.h

\* the ids of the emitted zone rectangles
emitted == {zones[k].id : k \in 1..Len(zones)}

\* the three columns of the gcp wrapper, top to bottom, with the max_cols
\* of a member zone (0 for the data-pipeline wrapper)
COLUMNS ==
  <<<<[id |-> "gcp-security", max_cols |-> 1], [id |-> "governance", max_cols |-> 1]>>,
    <<[id |-> "serving", max_cols |-> 2], [id |-> "data-pipeline", max_cols |-> 0]>>,
    <<[id |-> "gcp-obs", max_cols |-> 2], [id |-> "orchestration", max_cols |-> 2]>>>>

\* the emitted member zones of column c, top to bottom
members(c) == SelectSeq(COLUMNS[c], LAMBDA m : m.id \in emitted)

\* sum of the heights of the emitted members of column c plus one GAP
\* between every adjacent pair
RECURSIVE column_h(_)
column_h(ms) ==
  IF Len(ms) = 0 THEN 0
  ELSE rect_of(ms[1].id).h + (IF Len(ms) > 1 THEN GAP ELSE 0) + column_h(Tail(ms))

\* the number of placed nodes of zone z
placed_in(z) == Cardinality({i \in 1..Len(nodes) : nodes[i].subZone = z})

\* C24 (columns fit): a member zone of n nodes is _zone_h(n, max_cols) high,
\* the members of a column are stacked one GAP apart, the gcp wrapper is as
\* high as its tallest column plus padding and label, and every emitted
\* zone with a parent lies inside the rectangle of that parent
C24_ColumnsFit ==
  Diagrammed =>
    /\ \A k \in 1..Len(zones) :
         zones[k].parent # "" =>
           /\ zones[k].parent \in emitted
           /\ rect_inside(zones[k], rect_of(zones[k].parent))
    /\ \A c \in 1..Len(COLUMNS) :
         LET ms == members(c)
         IN  /\ \A i \in 1..Len(ms) :
                  /\ ms[i].max_cols # 0 =>
                       rect_of(ms[i].id).h = _zone_h(placed_in(ms[i].id), ms[i].max_cols)
                  /\ i > 1 => rect_of(ms[i].id).y
                                = rect_of(ms[i - 1].id).y + rect_of(ms[i - 1].id).h + GAP
             /\ Len(ms) > 0 =>
                  /\ "gcp" \in emitted
                  /\ rect_of(ms[1].id).y = rect_of("gcp").y + GCP_PAD + GCP_LABEL
                  /\ column_h(ms) + 2 * GCP_PAD + GCP_LABEL <= rect_of("gcp").h
    /\ "gcp" \in emitted =>
         \E c \in 1..Len(COLUMNS) :
           column_h(members(c)) + 2 * GCP_PAD + GCP_LABEL = rect_of("gcp").h

\* a returned diagram whose three columns have two member zones each, of
\* different total heights, with the medallion zone in the pipeline
C24_Witness ==
  /\ pc = "returned"
  /\ \A c \in 1..Len(COLUMNS) : Len(members(c)) = 2
  /\ "medallion" \in emitted
  /\ column_h(members(1)) > column_h(members(2))
  /\ column_h(members(2)) > column_h(members(3))


\* the zone rectangle the nodes of catalog zone z are placed in: the
\* data-pipeline rectangle for the raw sections, the zone's own otherwise
rect_zone(z) == IF z \in Sections THEN "data-pipeline" ELSE z

\* C25 (cards inside zones): the card of every placed node lies inside the
\* emitted rectangle of the zone the node belongs to
C25_CardsInside ==
  Diagrammed =>
    \A i \in 1..Len(nodes) :
      /\ rect_zone(nodes[i].subZone) \in emitted
      /\ card_inside(nodes[i], rect_of(rect_zone(nodes[i].subZone)))

\* a returned diagram with a zone of two rows, raw sections in the pipeline
\* and more than one consumer
C25_Witness ==
  /\ pc = "returned"
  /\ \E z \in {"gcp-security", "source"} : placed_in(z) >= 2 /\ Cardinality(node_ys(z)) >= 2
  /\ placed_in("ingestion") >= 1 /\ placed_in("landing") >= 1 /\ placed_in("processing") >= 2
  /\ placed_in("consumer") >= 2


(***************************************************************************)
(* kb_query.py: one SmartRouter serving several prompts                    *)
(***************************************************************************)
\* number of route calls on the router
MaxRoutes == 2

\* prompts routed on the router: two spellings of one normalised text and
\* the prompt of the row an earlier process has cached
RouterPrompts == {"kafka", " KAFKA ", "Oracle"}

\* answers of the classifier
RouterClasses ==
  {NoClass, [sources |-> {"src_rabbitmq"}, patterns |-> {}, industry |-> ""]}

\* a row an earlier process has written to kb_diagram_cache
EarlierRow ==
  [prompt |-> "oracle", sources |-> {"src_oracle"}, keep_set |-> expand({"src_oracle"}),
   industry |-> "", title |-> CHOOSE t \in build_title({"src_oracle"}) : TRUE]

\* Faulty variant of cache_key: the prompt is the key as it is
cache_key_verbatim(p) == p

\* p_lower of check_cache and cache_result: prompt.lower().strip()
cache_key(p) == strip(Lower(p))

InitRouter ==
  /\ pc = "start"
  /\ kb_diagram_cache = <<EarlierRow>>
  /\ _cache = <<>>
  /\ routes = <<>>
  /\ sliced = NoSlice
  /\ prompt = ""
  /\ sources = {}
  /\ keep = {}
  /\ title = ""
  /\ tier = 0
  /\ industry = ""
  /\ anti_patterns = <<>>
  /\ PRODUCTS = PRODUCTS_init
  /\ nodes = <<>>
  /\ zones = <<>>
  /\ edges = <<>>
  /\ old_result = NoResult
  /\ png = FALSE
  /\ rules = EDGE_RULES
  /\ failed = {}
  /\ requests = <<>>

\* what route computes from prompt q and classifier answer cls on a cache
\* miss, and the key of q, as tables (`@@ <<>>` makes a table of a function,
\* so that the prompt is scanned once)
route_miss ==
  [x \in RouterPrompts \X RouterClasses |->
     [sources |-> route_sources(x[1], x[2]), keep_set |-> route_keep(x[1], x[2]),
      industry |-> match_industry(x[1]),
      titles |-> build_title(route_sources(x[1], x[2]))]] @@ <<>>
p_lower_of == [q \in RouterPrompts |-> cache_key(q)] @@ <<>>
normalized == [q \in RouterPrompts |-> strip(Lower(q))] @@ <<>>

\* the entry of the log of route calls for a returned result
route_log(q, result, ran) ==
  [prompt |-> q, sources |-> result.sources, keep_set |-> result.keep_set,
   title |-> result.title, tier |-> result.tier, ran |-> ran]

\* the router's route(q) returns result to main
route_returns(q, result, ran) ==
  /\ prompt' = q
  /\ sources' = result.sources
  /\ keep' = result.keep_set
  /\ title' = result.title
  /\ industry' = result.industry
  /\ tier' = result.tier
  /\ routes' = Append(routes, route_log(q, result, ran))

\* SmartRouter.route(q) on the router that served the earlier prompts, as
\* the first step of a request: check_cache in memory, then in the
\* database, then classification, keyword match, auto_wire, build_title and
\* cache_result
Route(q, cls, db) ==
  /\ pc \in {"start", "built"}
  /\ Len(routes) < MaxRoutes
  /\ LET p_lower == p_lower_of[q]
         miss    == route_miss[<<q, cls>>]
         rows    == IF db # "down"
                    THEN {i \in 1..Len(kb_diagram_cache) :
                            Lower(strip(kb_diagram_cache[i].prompt)) = p_lower}
                    ELSE {}
     IN  IF p_lower \in DOMAIN _cache
         THEN /\ route_returns(q, [_cache[p_lower] EXCEPT !.tier = 1], {})
              /\ failed' = {}
              /\ UNCHANGED <<_cache, kb_diagram_cache>>
         ELSE IF rows # {}
         THEN /\ \E i \in rows :
                   route_returns(q, [sources |-> kb_diagram_cache[i].sources,
                                     keep_set |-> kb_diagram_cache[i].keep_set,
                                     industry |-> kb_diagram_cache[i].industry,
                                     title |-> kb_diagram_cache[i].title,
                                     tier |-> 1], {})
              /\ failed' = {}
              /\ UNCHANGED <<_cache, kb_diagram_cache>>
         ELSE \E t \in miss.titles :
                LET result == [sources |-> miss.sources,
                               keep_set |-> miss.keep_set,
                               industry |-> miss.industry,
                               title |-> with_industry(t, miss.industry),
                               tier |-> IF cls = NoClass THEN 3 ELSE 2]
                IN  /\ route_returns(q, result,
                                     {"parse_prompt", "auto_wire", "build_title"}
                                     \cup (IF cls # NoClass THEN {"_classify_with_haiku"}
                                           ELSE {}))
                    /\ failed' = route_failed(cls, db)
                    /\ _cache' = (p_lower :> result) @@ _cache
                    /\ kb_diagram_cache' =
                         IF db = "ok"
                         THEN Append(kb_diagram_cache,
                                     [prompt |-> q, sources |-> result.sources,
                                      keep_set |-> result.keep_set,
                                      industry |-> result.industry,
                                      title |-> result.title])
                         ELSE kb_diagram_cache
  /\ pc' = "routed"
  /\ UNCHANGED <<anti_patterns, PRODUCTS, nodes, zones, edges, old_result, png, rules,
                 requests, sliced>>

NextRouter ==
  \/ \E q \in RouterPrompts, cls \in RouterClasses, db \in DbOutcomes : Route(q, cls, db)
  \/ Build

SpecRouter == InitRouter /\ [][NextRouter]_vars

\* C26 (cache hit): after a route call that was not a cache hit, every
\* later route call on the same router with the same normalised prompt is
\* a tier-1 hit with the same sources, keep_set and title, runs neither
\* classification nor closure expansion, and its diagram is built by
\* build_diagram from the cached keep_set
C26_CacheHit ==
  /\ \A i, j \in 1..Len(routes) :
       ( /\ i < j
         /\ routes[i].tier # 1
         /\ normalized[routes[i].prompt] = normalized[routes[j].prompt] )
       => /\ routes[j].tier = 1
          /\ routes[j].sources = routes[i].sources
          /\ routes[j].keep_set = routes[i].keep_set
          /\ routes[j].title = routes[i].title
          /\ routes[j].ran = {}
  /\ (pc = "built" /\ tier = 1) =>
       /\ nodes # <<>>
       /\ ids_of(nodes) = _resolve_keep_set(keep, PRODUCTS)
       /\ zones = zones_out(ids_of(nodes), PRODUCTS)
       /\ edges = materialize_edges(rules, ids_of(nodes), PRODUCTS)

\* the second route call is a hit for a prompt spelled differently from
\* the first, which was classified and had two orders for its title, and
\* the diagram of the second request is built
C26_Witness ==
  /\ pc = "built"
  /\ tier = 1
  /\ Len(routes) = 2
  /\ routes[1].tier = 2
  /\ routes[1].prompt # routes[2].prompt
  /\ Cardinality(build_title(routes[1].sources)) > 1
  /\ routes[2].title = routes[1].title
  /\ kb_diagram_cache = <<EarlierRow>>


(***************************************************************************)
(* gcp_master_blueprint.py: the statements of the master blueprint         *)
(***************************************************************************)
\* a statement of the blueprint: the class of its AST node and its line,
\* the target and the class of the value of an assignment, the names an
\* expression statement refers to, whether a with-block is a Cluster, and
\* the body of a with-block
N(kind, line, target, value, names, cluster, body) ==
  [kind |-> kind, line |-> line, target |-> target, value |-> value, names |-> names,
   cluster |-> cluster, body |-> body]

MASTER_BLUEPRINT ==
  <<
    N("Expr", 1, "", "", {}, FALSE, <<>>),
    N("ImportFrom", 17, "", "", {}, FALSE, <<>>),
    N("ImportFrom", 20, "", "", {}, FALSE, <<>>),
    N("ImportFrom", 24, "", "", {}, FALSE, <<>>),
    N("ImportFrom", 27, "", "", {}, FALSE, <<>>),
    N("ImportFrom", 28, "", "", {}, FALSE, <<>>),
    N("ImportFrom", 29, "", "", {}, FALSE, <<>>),
    N("ImportFrom", 30, "", "", {}, FALSE, <<>>),
    N("ImportFrom", 33, "", "", {}, FALSE, <<>>),
    N("ImportFrom", 34, "", "", {}, FALSE, <<>>),
    N("ImportFrom", 35, "", "", {}, FALSE, <<>>),
    N("ImportFrom", 36, "", "", {}, FALSE, <<>>),
    N("ImportFrom", 37, "", "", {}, FALSE, <<>>),
    N("ImportFrom", 40, "", "", {}, FALSE, <<>>),
    N("ImportFrom", 43, "", "", {}, FALSE, <<>>),
    N("ImportFrom", 46, "", "", {}, FALSE, <<>>),
    N("ImportFrom", 47, "", "", {}, FALSE, <<>>),
    N("ImportFrom", 48, "", "", {}, FALSE, <<>>),
    N("ImportFrom", 49, "", "", {}, FALSE, <<>>),
    N("ImportFrom", 50, "", "", {}, FALSE, <<>>),
    N("ImportFrom", 51, "", "", {}, FALSE, <<>>),
    N("ImportFrom", 54, "", "", {}, FALSE, <<>>),
    N("ImportFrom", 55, "", "", {}, FALSE, <<>>),
    N("Assign", 60, "E_BLUE", "Dict", {}, FALSE, <<>>),
    N("Assign", 61, "E_BLUE_DASH", "Dict", {}, FALSE, <<>>),
    N("Assign", 62, "E_ORANGE", "Dict", {}, FALSE, <<>>),
    N("Assign", 63, "E_PURPLE", "Dict", {}, FALSE, <<>>),
    N("Assign", 64, "E_GREEN", "Dict", {}, FALSE, <<>>),
    N("Assign", 65, "E_GREEN_DASH", "Dict", {}, FALSE, <<>>),
    N("Assign", 66, "E_RED_DASH", "Dict", {}, FALSE, <<>>),
    N("Assign", 67, "E_TEAL", "Dict", {}, FALSE, <<>>),
    N("Assign", 70, "E_QUALITY_DASH", "Dict", {}, FALSE, <<>>),
    N("Assign", 71, "E_ORC_DASH", "Dict", {}, FALSE, <<>>),
    N("Assign", 72, "E_OBS_DASH", "Dict", {}, FALSE, <<>>),
    N("Assign", 73, "E_GOV_DASH", "Dict", {}, FALSE, <<>>),
    N("Assign", 74, "E_SEC_DASH", "Dict", {}, FALSE, <<>>),
    N("Assign", 80, "CS_SOURCES", "Dict", {}, FALSE, <<>>),
    N("Assign", 81, "CS_VENDORS", "Dict", {}, FALSE, <<>>),
    N("Assign", 82, "CS_GCP", "Dict", {}, FALSE, <<>>),
    N("Assign", 83, "CS_L2", "Dict", {}, FALSE, <<>>),
    N("Assign", 84, "CS_L3", "Dict", {}, FALSE, <<>>),
    N("Assign", 85, "CS_L4", "Dict", {}, FALSE, <<>>),
    N("Assign", 86, "CS_L5", "Dict", {}, FALSE, <<>>),
    N("Assign", 87, "CS_L6", "Dict", {}, FALSE, <<>>),
    N("Assign", 88, "CS_L7", "Dict", {}, FALSE, <<>>),
    N("Assign", 89, "CS_CONSUMERS", "Dict", {}, FALSE, <<>>),
    N("Assign", 92, "CS_QUALITY", "Dict", {}, FALSE, <<>>),
    N("Assign", 93, "CS_OBS", "Dict", {}, FALSE, <<>>),
    N("Assign", 94, "CS_ORC", "Dict", {}, FALSE, <<>>),
    N("Assign", 95, "CS_SEC", "Dict", {}, FALSE, <<>>),
    N("Assign", 96, "CS_GOV", "Dict", {}, FALSE, <<>>),
    N("With", 103, "", "", {}, FALSE,
      <<
      N("With", 125, "", "", {}, TRUE,
        <<
        N("With", 127, "", "", {}, TRUE,
          <<
          N("Assign", 128, "cloud_sql", "Call", {}, FALSE, <<>>),
          N("Assign", 129, "cloud_spanner", "Call", {}, FALSE, <<>>)>>),
        N("With", 131, "", "", {}, TRUE,
          <<
          N("Assign", 132, "oracle_db", "Call", {}, FALSE, <<>>),
          N("Assign", 133, "sqlserver_db", "Call", {}, FALSE, <<>>),
          N("Assign", 134, "postgresql_db", "Call", {}, FALSE, <<>>),
          N("Assign", 135, "mongodb_db", "Call", {}, FALSE, <<>>)>>),
        N("With", 137, "", "", {}, TRUE,
          <<
          N("Assign", 138, "salesforce", "Call", {}, FALSE, <<>>),
          N("Assign", 139, "workday", "Call", {}, FALSE, <<>>),
          N("Assign", 140, "servicenow_src", "Call", {}, FALSE, <<>>),
          N("Assign", 141, "sap_src", "Call", {}, FALSE, <<>>)>>),
        N("With", 143, "", "", {}, TRUE,
          <<
          N("Assign", 144, "kafka_stream", "Call", {}, FALSE, <<>>)>>),
        N("With", 146, "", "", {}, TRUE,
          <<
          N("Assign", 147, "aws_s3", "Call", {}, FALSE, <<>>),
          N("Assign", 148, "sftp_server", "Call", {}, FALSE, <<>>)>>)>>),
      N("With", 154, "", "", {}, TRUE,
        <<
        N("Assign", 155, "entra_id", "Call", {}, FALSE, <<>>),
        N("Assign", 156, "cyberark", "Call", {}, FALSE, <<>>),
        N("Assign", 157, "keeper", "Call", {}, FALSE, <<>>)>>),
      N("With", 163, "", "", {}, TRUE,
        <<
        N("With", 166, "", "", {}, TRUE,
          <<
          N("Assign", 167, "cloud_vpn", "Call", {}, FALSE, <<>>),
          N("Assign", 168, "cloud_interco", "Call", {}, FALSE, <<>>),
          N("Assign", 169, "vpc", "Call", {}, FALSE, <<>>),
          N("Assign", 170, "vpc_sc", "Call", {}, FALSE, <<>>),
          N("Assign", 171, "cloud_armor", "Call", {}, FALSE, <<>>),
          N("Assign", 172, "cloud_iam", "Call", {}, FALSE, <<>>),
          N("Assign", 173, "secret_manager", "Call", {}, FALSE, <<>>),
          N("Assign", 174, "apigee", "Call", {}, FALSE, <<>>),
          N("Assign", 175, "cloud_dns", "Call", {}, FALSE, <<>>)>>),
        N("With", 178, "", "", {}, TRUE,
          <<
          N("Assign", 179, "datastream", "Call", {}, FALSE, <<>>),
          N("Assign", 180, "pubsub", "Call", {}, FALSE, <<>>),
          N("Assign", 181, "dataflow_ing", "Call", {}, FALSE, <<>>),
          N("Assign", 182, "cloud_functions", "Call", {}, FALSE, <<>>),
          N("Assign", 183, "bq_dts", "Call", {}, FALSE, <<>>),
          N("Assign", 184, "storage_transfer", "Call", {}, FALSE, <<>>),
          N("Assign", 185, "data_fusion", "Call", {}, FALSE, <<>>),
          N("Assign", 186, "matillion", "Call", {}, FALSE, <<>>),
          N("Assign", 187, "fivetran", "Call", {}, FALSE, <<>>)>>),
        N("With", 190, "", "", {}, TRUE,
          <<
          N("Assign", 191, "gcs_raw", "Call", {}, FALSE, <<>>),
          N("Assign", 192, "bq_staging", "Call", {}, FALSE, <<>>)>>),
        N("With", 195, "", "", {}, TRUE,
          <<
          N("Assign", 196, "dataform", "Call", {}, FALSE, <<>>),
          N("Assign", 197, "dataflow_proc", "Call", {}, FALSE, <<>>),
          N("Assign", 198, "dataproc", "Call", {}, FALSE, <<>>)>>),
        N("With", 201, "", "", {}, TRUE,
          <<
          N("Assign", 202, "bronze", "Call", {}, FALSE, <<>>),
          N("Assign", 203, "silver", "Call", {}, FALSE, <<>>),
          N("Assign", 204, "gold", "Call", {}, FALSE, <<>>)>>),
        N("With", 207, "", "", {}, TRUE,
          <<
          N("Assign", 208, "looker", "Call", {}, FALSE, <<>>),
          N("Assign", 209, "looker_studio", "Call", {}, FALSE, <<>>),
          N("Assign", 210, "analytics_hub", "Call", {}, FALSE, <<>>),
          N("Assign", 211, "cloud_run", "Call", {}, FALSE, <<>>),
          N("Assign", 212, "vertex_ai", "Call", {}, FALSE, <<>>)>>),
        N("With", 219, "", "", {}, TRUE,
          <<
          N("Assign", 220, "dataplex_dq", "Call", {}, FALSE, <<>>),
          N("Assign", 221, "cloud_dlp", "Call", {}, FALSE, <<>>)>>),
        N("With", 224, "", "", {}, TRUE,
          <<
          N("Assign", 225, "cloud_composer", "Call", {}, FALSE, <<>>),
          N("Assign", 226, "cloud_scheduler", "Call", {}, FALSE, <<>>)>>),
        N("With", 229, "", "", {}, TRUE,
          <<
          N("Assign", 230, "cloud_kms", "Call", {}, FALSE, <<>>),
          N("Assign", 231, "scc_pillar", "Call", {}, FALSE, <<>>),
          N("Assign", 232, "audit_logs", "Call", {}, FALSE, <<>>)>>),
        N("With", 235, "", "", {}, TRUE,
          <<
          N("Assign", 236, "dataplex", "Call", {}, FALSE, <<>>),
          N("Assign", 237, "data_catalog", "Call", {}, FALSE, <<>>)>>)>>),
      N("With", 243, "", "", {}, TRUE,
        <<
        N("Assign", 244, "cloud_monitoring", "Call", {}, FALSE, <<>>),
        N("Assign", 245, "cloud_logging", "Call", {}, FALSE, <<>>),
        N("Assign", 246, "splunk_siem", "Call", {}, FALSE, <<>>),
        N("Assign", 247, "dynatrace_apm", "Call", {}, FALSE, <<>>),
        N("Assign", 248, "pagerduty_inc", "Call", {}, FALSE, <<>>)>>),
      N("With", 254, "", "", {}, TRUE,
        <<
        N("Assign", 255, "wiz_cspm", "Call", {}, FALSE, <<>>),
        N("Assign", 256, "archer_grc", "Call", {}, FALSE, <<>>)>>),
      N("With", 262, "", "", {}, TRUE,
        <<
        N("Assign", 263, "power_bi", "Call", {}, FALSE, <<>>),
        N("Assign", 264, "slicer_dicer", "Call", {}, FALSE, <<>>)>>),
      N("With", 270, "", "", {}, TRUE,
        <<
        N("Assign", 271, "analysts", "Call", {}, FALSE, <<>>),
        N("Assign", 272, "data_scientists", "Call", {}, FALSE, <<>>),
        N("Assign", 273, "downstream_sys", "Call", {}, FALSE, <<>>),
        N("Assign", 274, "executives", "Call", {}, FALSE, <<>>)>>),
      N("Assign", 279, "E_INVIS", "Dict", {}, FALSE, <<>>),
      N("Expr", 280, "", "", {"E_INVIS", "Edge", "cloud_vpn", "oracle_db"}, FALSE, <<>>),
      N("Expr", 281, "", "", {"E_INVIS", "Edge", "cloud_vpn", "datastream"}, FALSE, <<>>),
      N("Expr", 282, "", "", {"E_INVIS", "Edge", "datastream", "gcs_raw"}, FALSE, <<>>),
      N("Expr", 283, "", "", {"E_INVIS", "Edge", "dataform", "gcs_raw"}, FALSE, <<>>),
      N("Expr", 284, "", "", {"E_INVIS", "Edge", "bronze", "dataform"}, FALSE, <<>>),
      N("Expr", 285, "", "", {"E_INVIS", "Edge", "bronze", "silver"}, FALSE, <<>>),
      N("Expr", 286, "", "", {"E_INVIS", "Edge", "gold", "silver"}, FALSE, <<>>),
      N("Expr", 287, "", "", {"E_INVIS", "Edge", "gold", "looker"}, FALSE, <<>>),
      N("Expr", 288, "", "", {"E_INVIS", "Edge", "analysts", "looker"}, FALSE, <<>>),
      N("Expr", 295, "", "", {"E_PURPLE", "Edge", "cloud_iam", "entra_id"}, FALSE, <<>>),
      N("Expr", 296, "", "", {"E_PURPLE", "Edge", "cyberark", "secret_manager"}, FALSE, <<>>),
      N("Expr", 297, "", "", {"E_PURPLE", "Edge", "keeper", "secret_manager"}, FALSE, <<>>),
      N("Expr", 301, "", "", {"E_ORANGE", "Edge", "cloud_vpn", "oracle_db"}, FALSE, <<>>),
      N("Expr", 302, "", "", {"E_ORANGE", "Edge", "cloud_vpn", "sqlserver_db"}, FALSE, <<>>),
      N("Expr", 303, "", "", {"E_ORANGE", "Edge", "cloud_vpn", "postgresql_db"}, FALSE, <<>>),
      N("Expr", 304, "", "", {"E_ORANGE", "Edge", "cloud_vpn", "mongodb_db"}, FALSE, <<>>),
      N("Expr", 306, "", "", {"E_BLUE", "Edge", "cloud_sql", "datastream"}, FALSE, <<>>),
      N("Expr", 307, "", "", {"E_BLUE", "Edge", "cloud_spanner", "dataflow_ing"}, FALSE, <<>>),
      N("Expr", 309, "", "", {"E_ORANGE", "Edge", "cloud_functions", "salesforce"}, FALSE,
          <<>>),
      N("Expr", 310, "", "", {"E_ORANGE", "Edge", "fivetran", "salesforce"}, FALSE, <<>>),
      N("Expr", 311, "", "", {"E_ORANGE", "Edge", "matillion", "workday"}, FALSE, <<>>),
      N("Expr", 312, "", "", {"E_ORANGE", "Edge", "cloud_functions", "servicenow_src"}, FALSE,
          <<>>),
      N("Expr", 313, "", "", {"E_ORANGE", "Edge", "data_fusion", "sap_src"}, FALSE, <<>>),
      N("Expr", 315, "", "", {"E_ORANGE", "Edge", "kafka_stream", "pubsub"}, FALSE, <<>>),
      N("Expr", 317, "", "", {"E_ORANGE", "Edge", "aws_s3", "bq_dts"}, FALSE, <<>>),
      N("Expr", 318, "", "", {"E_ORANGE", "Edge", "aws_s3", "storage_transfer"}, FALSE, <<>>),
      N("Expr", 319, "", "", {"E_ORANGE", "Edge", "cloud_functions", "sftp_server"}, FALSE,
          <<>>),
      N("Expr", 322, "", "", {"E_BLUE_DASH", "Edge", "cloud_vpn", "vpc"}, FALSE, <<>>),
      N("Expr", 323, "", "", {"E_BLUE_DASH", "Edge", "cloud_interco", "vpc"}, FALSE, <<>>),
      N("Expr", 324, "", "", {"E_BLUE_DASH", "Edge", "vpc", "vpc_sc"}, FALSE, <<>>),
      N("Expr", 325, "", "", {"E_BLUE_DASH", "Edge", "cloud_iam", "secret_manager"}, FALSE,
          <<>>),
      N("Expr", 328, "", "", {"E_BLUE", "Edge", "cloud_iam", "datastream"}, FALSE, <<>>),
      N("Expr", 331, "", "", {"E_BLUE", "Edge", "datastream", "gcs_raw"}, FALSE, <<>>),
      N("Expr", 332, "", "", {"E_BLUE", "Edge", "dataflow_ing", "pubsub"}, FALSE, <<>>),
      N("Expr", 333, "", "", {"E_BLUE", "Edge", "bq_staging", "dataflow_ing"}, FALSE, <<>>),
      N("Expr", 334, "", "", {"E_BLUE", "Edge", "bq_dts", "bq_staging"}, FALSE, <<>>),
      N("Expr", 335, "", "", {"E_BLUE", "Edge", "gcs_raw", "storage_transfer"}, FALSE, <<>>),
      N("Expr", 336, "", "", {"E_BLUE", "Edge", "cloud_functions", "gcs_raw"}, FALSE, <<>>),
      N("Expr", 337, "", "", {"E_BLUE", "Edge", "data_fusion", "gcs_raw"}, FALSE, <<>>),
      N("Expr", 338, "", "", {"E_BLUE", "Edge", "bq_staging", "matillion"}, FALSE, <<>>),
      N("Expr", 339, "", "", {"E_BLUE", "Edge", "bq_staging", "fivetran"}, FALSE, <<>>),
      N("Expr", 342, "", "", {"E_BLUE", "Edge", "dataform", "gcs_raw"}, FALSE, <<>>),
      N("Expr", 343, "", "", {"E_BLUE", "Edge", "dataproc", "gcs_raw"}, FALSE, <<>>),
      N("Expr", 344, "", "", {"E_BLUE", "Edge", "bq_staging", "dataform"}, FALSE, <<>>),
      N("Expr", 345, "", "", {"E_BLUE", "Edge", "bq_staging", "dataflow_proc"}, FALSE, <<>>),
      N("Expr", 348, "", "", {"E_TEAL", "Edge", "bronze", "dataform"}, FALSE, <<>>),
      N("Expr", 349, "", "", {"E_TEAL", "Edge", "bronze", "dataflow_proc"}, FALSE, <<>>),
      N("Expr", 350, "", "", {"E_TEAL", "Edge", "bronze", "dataproc"}, FALSE, <<>>),
      N("Expr", 353, "", "", {"E_BLUE", "Edge", "bronze", "silver"}, FALSE, <<>>),
      N("Expr", 354, "", "", {"E_BLUE", "Edge", "gold", "silver"}, FALSE, <<>>),
      N("Expr", 357, "", "", {"E_GREEN", "Edge", "gold", "looker"}, FALSE, <<>>),
      N("Expr", 358, "", "", {"E_GREEN", "Edge", "gold", "looker_studio"}, FALSE, <<>>),
      N("Expr", 359, "", "", {"E_GREEN", "Edge", "analytics_hub", "gold"}, FALSE, <<>>),
      N("Expr", 360, "", "", {"E_GREEN", "Edge", "cloud_run", "gold"}, FALSE, <<>>),
      N("Expr", 361, "", "", {"E_GREEN", "Edge", "gold", "vertex_ai"}, FALSE, <<>>),
      N("Expr", 363, "", "", {"E_ORANGE", "Edge", "gold", "power_bi"}, FALSE, <<>>),
      N("Expr", 364, "", "", {"E_ORANGE", "Edge", "gold", "slicer_dicer"}, FALSE, <<>>),
      N("Expr", 367, "", "", {"E_BLUE", "Edge", "analysts", "looker"}, FALSE, <<>>),
      N("Expr", 368, "", "", {"E_BLUE", "Edge", "executives", "looker"}, FALSE, <<>>),
      N("Expr", 369, "", "", {"E_BLUE", "Edge", "data_scientists", "vertex_ai"}, FALSE, <<>>),
      N("Expr", 370, "", "", {"E_BLUE", "Edge", "cloud_run", "downstream_sys"}, FALSE, <<>>),
      N("Expr", 371, "", "", {"E_ORANGE", "Edge", "analysts", "power_bi"}, FALSE, <<>>),
      N("Expr", 378, "", "", {"E_QUALITY_DASH", "Edge", "dataform", "dataplex_dq"}, FALSE,
          <<>>),
      N("Expr", 379, "", "", {"E_QUALITY_DASH", "Edge", "bronze", "dataplex_dq"}, FALSE, <<>>),
      N("Expr", 380, "", "", {"E_QUALITY_DASH", "Edge", "cloud_dlp", "dataform"}, FALSE, <<>>),
      N("Expr", 381, "", "", {"E_QUALITY_DASH", "Edge", "cloud_dlp", "silver"}, FALSE, <<>>),
      N("Expr", 384, "", "", {"E_ORC_DASH", "Edge", "cloud_composer", "dataform"}, FALSE, <<>>),
      N("Expr", 385, "", "", {"E_ORC_DASH", "Edge", "cloud_composer", "dataflow_ing"}, FALSE,
          <<>>),
      N("Expr", 386, "", "", {"E_ORC_DASH", "Edge", "bq_dts", "cloud_scheduler"}, FALSE, <<>>),
      N("Expr", 389, "", "", {"E_OBS_DASH", "Edge", "cloud_monitoring", "dataflow_ing"}, FALSE,
          <<>>),
      N("Expr", 390, "", "", {"E_OBS_DASH", "Edge", "cloud_logging", "dataform"}, FALSE, <<>>),
      N("Expr", 391, "", "", {"E_OBS_DASH", "Edge", "cloud_composer", "cloud_logging"}, FALSE,
          <<>>),
      N("Expr", 393, "", "", {"E_OBS_DASH", "Edge", "cloud_monitoring", "pagerduty_inc"},
          FALSE, <<>>),
      N("Expr", 394, "", "", {"E_OBS_DASH", "Edge", "cloud_logging", "splunk_siem"}, FALSE,
          <<>>),
      N("Expr", 395, "", "", {"E_OBS_DASH", "Edge", "cloud_monitoring", "dynatrace_apm"},
          FALSE, <<>>),
      N("Expr", 396, "", "", {"E_OBS_DASH", "Edge", "audit_logs", "cloud_logging"}, FALSE,
          <<>>),
      N("Expr", 399, "", "", {"E_SEC_DASH", "Edge", "cloud_kms", "gold"}, FALSE, <<>>),
      N("Expr", 400, "", "", {"E_SEC_DASH", "Edge", "audit_logs", "splunk_siem"}, FALSE, <<>>),
      N("Expr", 401, "", "", {"E_SEC_DASH", "Edge", "scc_pillar", "wiz_cspm"}, FALSE, <<>>),
      N("Expr", 404, "", "", {"E_GOV_DASH", "Edge", "data_catalog", "dataplex"}, FALSE, <<>>),
      N("Expr", 405, "", "", {"E_GOV_DASH", "Edge", "dataplex", "dataplex_dq"}, FALSE, <<>>),
      N("Expr", 406, "", "", {"E_GOV_DASH", "Edge", "cloud_dlp", "data_catalog"}, FALSE, <<>>),
      N("Expr", 409, "", "", {"E_PURPLE", "Edge", "archer_grc", "audit_logs"}, FALSE, <<>>)>>),
    N("Expr", 411, "", "", {"print"}, FALSE, <<>>)>>

(***************************************************************************)
(* archgen_slicer.py: DiagramSlicer and slice_blueprint                    *)
(***************************************************************************)
\* DiagramSlicer.always_keep
always_keep ==
  {"E_BLUE", "E_BLUE_DASH", "E_ORANGE", "E_PURPLE", "E_GREEN", "E_GREEN_DASH",
   "E_RED_DASH", "E_TEAL", "CS_SOURCES", "CS_VENDORS", "CS_GCP", "CS_GCP_SUB",
   "CS_CONSUMERS", "CS_OPS", "CS_SEC", "CS_GOV"}

\* Faulty variant of _references_removed: no name counts as removed
_references_nothing(node, removed_vars) == FALSE

\* _references_removed: a name of the statement is in removed_vars
_references_removed(node, removed_vars) == node.names \cap removed_vars # {}

\* the statement ast.Pass()
Pass == N("Pass", 0, "", "", {}, FALSE, <<>>)

\* DiagramSlicer.visit on a statement and on the statements lo..hi of a
\* body in order, with the removed_vars collected so far: the statements
\* that take the place of the visited ones, and removed_vars afterwards
\* (the body is visited in two halves, the first before the second, which
\* keeps the evaluation shallow)
RECURSIVE visit(_, _, _)
RECURSIVE visit_range(_, _, _, _, _)
visit_range(body, lo, hi, keep_set, removed_vars) ==
  IF lo > hi THEN [result |-> <<>>, removed_vars |-> removed_vars]
  ELSE IF lo = hi THEN visit(body[lo], keep_set, removed_vars)
  ELSE LET mid == (lo + hi) \div 2
           h   == visit_range(body, lo, mid, keep_set, removed_vars)
           t   == visit_range(body, mid + 1, hi, keep_set, h.removed_vars)
       IN  [result |-> h.result \o t.result, removed_vars |-> t.removed_vars]

visit_body(body, keep_set, removed_vars) ==
  visit_range(body, 1, Len(body), keep_set, removed_vars)

visit(node, keep_set, removed_vars) ==
  LET kept    == [result |-> <<node>>, removed_vars |-> removed_vars]
      deleted == [result |-> <<>>, removed_vars |-> removed_vars]
  IN  CASE node.kind = "Assign" ->
             IF node.target \in always_keep THEN kept
             ELSE IF node.value = "Call" /\ node.target \notin keep_set
             THEN [result |-> <<>>, removed_vars |-> removed_vars \cup {node.target}]
             ELSE kept
        [] node.kind = "Expr" ->
             IF _references_removed(node, removed_vars) THEN deleted ELSE kept
        [] node.kind = "With" ->
             LET b == visit_body(node.body, keep_set, removed_vars)
             IN  IF node.cluster /\ b.result = <<>>
                 THEN [result |-> <<>>, removed_vars |-> b.removed_vars]
                 ELSE [result |-> <<[node EXCEPT !.body = IF b.result = <<>> THEN <<Pass>>
                                                          ELSE b.result]>>,
                       removed_vars |-> b.removed_vars]
        [] OTHER -> kept

\* slice_blueprint(master_source, keep_products, ...): the sliced module
\* and slicer.removed_vars
slice_blueprint(master_source, keep_products) ==
  LET m == visit_body(master_source, keep_products, {})
  IN  [source |-> m.result, removed_vars |-> m.removed_vars]

\* ids a small selection is made of: products of four clusters, and an id
\* the blueprint does not assign
SlicePool ==
  {"oracle_db", "kafka_stream", "cloud_vpn", "datastream", "bronze", "silver",
   "no_such_product"}

\* keep sets given to slice_blueprint: those decide_products returns, and
\* the small selections
SliceSelections ==
  {decide_products(p).keep_set : p \in Prompts} \cup SUBSET SlicePool

InitSlice ==
  /\ pc = "call"
  /\ keep \in SliceSelections
  /\ sliced = NoSlice
  /\ prompt = ""
  /\ sources = {}
  /\ title = ""
  /\ tier = 0
  /\ industry = ""
  /\ anti_patterns = <<>>
  /\ PRODUCTS = PRODUCTS_init
  /\ nodes = <<>>
  /\ zones = <<>>
  /\ edges = <<>>
  /\ old_result = NoResult
  /\ png = FALSE
  /\ kb_diagram_cache = <<>>
  /\ rules = EDGE_RULES
  /\ failed = {}
  /\ requests = <<>>
  /\ _cache = <<>>
  /\ routes = <<>>

\* slice_blueprint(master_source, keep, ...) called on the master blueprint
SliceDirect ==
  /\ pc = "call"
  /\ sliced' = slice_blueprint(MASTER_BLUEPRINT, keep)
  /\ pc' = "sliced"
  /\ UNCHANGED <<prompt, sources, keep, title, tier, industry, anti_patterns, PRODUCTS,
                 nodes, zones, edges, old_result, png, kb_diagram_cache, rules, failed,
                 requests, _cache, routes>>

NextSlice == SliceDirect

SpecSlice == InitSlice /\ [][NextSlice]_vars

\* the statements of a body and of the bodies inside it, in source order
RECURSIVE statements_range(_, _, _)
statements_range(body, lo, hi) ==
  IF lo > hi THEN <<>>
  ELSE IF lo = hi THEN <<body[lo]>> \o statements_range(body[lo].body, 1, Len(body[lo].body))
  ELSE statements_range(body, lo, (lo + hi) \div 2)
       \o statements_range(body, (lo + hi) \div 2 + 1, hi)

statements(body) == statements_range(body, 1, Len(body))

\* the variables the statements assign a product (a Call) to
product_vars(stmts) ==
  {stmts[i].target : i \in {j \in 1..Len(stmts) : /\ stmts[j].kind = "Assign"
                                                   /\ stmts[j].value = "Call"}}

master_statements == statements(MASTER_BLUEPRINT)
master_products == product_vars(master_statements)

\* C27 (sliced blueprint closed over the keep set): after slice_blueprint
\* the product assignments of the blueprint that remain are those whose
\* variable is in keep_set, removed_vars holds the others, no remaining
\* expression statement names a removed variable, and no Cluster block has
\* an empty body
C27_SliceClosed ==
  pc = "sliced" =>
    LET after == statements(sliced.source)
    IN  /\ \A i \in 1..Len(master_statements) :
             (master_statements[i].kind = "Assign" /\ master_statements[i].value = "Call")
             => ( master_statements[i].target \in keep
                  <=> \E j \in 1..Len(after) : after[j] = master_statements[i] )
        /\ product_vars(after) = master_products \cap keep
        /\ sliced.removed_vars = master_products \ keep
        /\ \A j \in 1..Len(after) :
             /\ after[j].kind = "Expr" => after[j].names \cap sliced.removed_vars = {}
             /\ (after[j].kind = "With" /\ after[j].cluster) => after[j].body # <<>>

\* a slice that keeps two products of one cluster and an edge between
\* them, removes whole clusters and the edges of removed products, and was
\* given an id the blueprint does not have
C27_Witness ==
  /\ pc = "sliced"
  /\ keep = {"bronze", "silver", "no_such_product"}
  /\ product_vars(statements(sliced.source)) = {"bronze", "silver"}
  /\ \E j \in 1..Len(statements(sliced.source)) :
       /\ statements(sliced.source)[j].kind = "Expr"
       /\ {"bronze", "silver"} \subseteq statements(sliced.source)[j].names
  /\ Cardinality({j \in 1..Len(statements(sliced.source)) :
                    statements(sliced.source)[j].kind = "With"}) = 3


(***************************************************************************)
(* Sources in the diagram                                                  *)
(***************************************************************************)
\* the placed nodes of the source zone
source_nodes == {i \in 1..Len(nodes) : nodes[i].subZone = "source"}

\* node i has an edge to a node of the ingestion section
feeds_ingestion(i) ==
  \E e \in 1..Len(edges) :
    /\ edges[e].from = nodes[i].id
    /\ edges[e].to \in ids_of(nodes)
    /\ zone_at(edges[e].to) = "ingestion"

\* C28 (sources wired): on the keyword path every source node of the
\* diagram has an edge to an ingestion node of the diagram
C28_SourcesWired ==
  (Diagrammed /\ tier = 3) => \A i \in source_nodes : feeds_ingestion(i)


\* the source ids of the closure set
selected_sources == {s \in keep : StartsWith(s, "src_")}

\* C29 (sources preserved): two distinct source ids of the closure set
\* resolve to two distinct diagram nodes, and the diagram has as many
\* source nodes as the closure set has source ids
C29_SourcesPreserved ==
  Diagrammed =>
    /\ \A s, t \in selected_sources : s # t => node_of(s) # node_of(t)
    /\ Cardinality(source_nodes) = Cardinality(selected_sources)


\* C30 (title a function of the source set): the routed title is the one
\* title build_title has for the set of sources, whatever the order the
\* set is iterated in
C30_TitleOfSet ==
  (Routed /\ tier # 1) =>
    \A q \in Orders(sources) : title = with_industry(title_of(q), industry)
=============================================================================
